---------------------------- MODULE Spec2Model ----------------------------
(***************************************************************************)
(* CFR ("Cursed Form Representation") decoding in UefiPayloadPkg:          *)
(*   - CfrExtractVarBinary and CfrOptionGetDefaultValue (CfrHelpersLib),   *)
(*   - CfrCreateRuntimeComponents and its per-record handlers              *)
(*     (CfrSetupMenuDxe/SetupMenuCfr.c),                                   *)
(*   - CfrSetupMenuEntryPoint (CfrSetupMenuDxe).                           *)
(*                                                                         *)
(* CFR trees are byte buffers (one per GUID HOB), little-endian, packed.   *)
(* Every read of the code is a read of bytes at an offset of a buffer; a   *)
(* read outside the buffer, or through a NULL pointer, yields a value the  *)
(* model chooses nondeterministically (the parameter g of the operators).  *)
(* ASSERT() stops the driver (CpuDeadLoop) when the build enables          *)
(* assertions and is a no-op otherwise; both builds are modelled           *)
(* (variable assertsOn).                                                   *)
(* UINTN is 64 bits wide (X64): sums of the 32-bit sizes read here do not  *)
(* wrap, so offsets are plain naturals.                                    *)
(***************************************************************************)
EXTENDS Integers, Sequences, FiniteSets, TLC

(***************************************************************************)
(* Record tags, flags and fixed-header lengths (Guid/CfrSetupMenuGuid.h).  *)
(***************************************************************************)
CB_TAG_CFR_OPTION_FORM == 1
CB_TAG_CFR_ENUM_VALUE == 2
CB_TAG_CFR_OPTION_ENUM == 3
CB_TAG_CFR_OPTION_NUMBER == 4
CB_TAG_CFR_OPTION_BOOL == 5
CB_TAG_CFR_OPTION_VARCHAR == 6
CB_TAG_CFR_VARCHAR_OPT_NAME == 7
CB_TAG_CFR_VARCHAR_UI_NAME == 8
CB_TAG_CFR_VARCHAR_UI_HELPTEXT == 9
CB_TAG_CFR_VARCHAR_DEF_VALUE == 10
CB_TAG_CFR_OPTION_COMMENT == 11

CFR_OPTFLAG_READONLY == 1
CFR_OPTFLAG_GRAYOUT == 2
CFR_OPTFLAG_SUPPRESS == 4
CFR_OPTFLAG_VOLATILE == 8
CFR_OPTFLAG_RUNTIME == 16

\* sizeof () of the packed structures
sizeof_CFR_VARBINARY == 12
sizeof_CFR_ENUM_VALUE == 12
sizeof_CFR_OPTION_NUMERIC == 32
sizeof_CFR_OPTION_VARCHAR == 28
sizeof_CFR_OPTION_FORM == 28

\* Offsets of the fields the code reads (packed layout)
offsetof_size == 4
offsetof_data_length == 8
offsetof_flags == 24
offsetof_default_value == 28
offsetof_enum_value == 8

\* CfrProcessCharacterOption: largest accepted data_length of a default value
MAX_DEFAULT_LENGTH == 255

\* CFR_COMPONENT_START: question and varstore ids are object_id plus this
CFR_COMPONENT_START == 4096

HasFlag(flags, bit) == (flags \div bit) % 2 = 1

(***************************************************************************)
(* Bytes.                                                                  *)
(***************************************************************************)
U32(n) == << n % 256, (n \div 256) % 256, (n \div 65536) % 256, (n \div 16777216) % 256 >>

U64(n) == U32(n) \o U32(0)

Zeros(n) == [i \in 1..n |-> 0]

PadTo4(bytes) == bytes \o Zeros((4 - (Len(bytes) % 4)) % 4)

RECURSIVE Flatten(_)
Flatten(seqs) == IF seqs = << >> THEN << >> ELSE Head(seqs) \o Flatten(Tail(seqs))

\* ASCII strings used as names, labels and defaults
S_Main == << 77, 97, 105, 110 >>
S_Advanced == << 65, 100, 118, 97, 110, 99, 101, 100 >>
S_Sub == << 83, 117, 98 >>
S_Foo == << 70, 111, 111 >>
S_Bar == << 66, 97, 114 >>
S_Baz == << 66, 97, 122 >>
S_Txt == << 84 >>
S_Help == << 72 >>
S_On == << 79, 110 >>
S_Off == << 79, 102 >>
S_None == << 45 >>

(***************************************************************************)
(* Descriptions of CFR records and their encoding into bytes.  A           *)
(* description lists what the producer put in the buffer; dsz and pad are  *)
(* the ways a description departs from the well-formed layout.             *)
(***************************************************************************)
\* A varbinary holding the NUL-terminated string s
VB(t, s) == [t |-> t, dl |-> Len(s) + 1, data |-> s \o << 0 >>, dsz |-> 0]

\* A varbinary holding s in a field of n bytes
VBn(t, s, n) == [t |-> t, dl |-> n, data |-> s \o Zeros(n - Len(s)), dsz |-> 0]

\* A varbinary whose data_length (dl) does not describe its data
VBdl(t, s, dl) == [t |-> t, dl |-> dl, data |-> s \o << 0 >>, dsz |-> 0]

\* A varbinary whose size field is off by dsz
VBsz(t, s, dsz) == [t |-> t, dl |-> Len(s) + 1, data |-> s \o << 0 >>, dsz |-> dsz]

EncVB(f) ==
  LET padded == PadTo4(f.data)
  IN U32(f.t) \o U32(sizeof_CFR_VARBINARY + Len(padded) + f.dsz) \o U32(f.dl) \o padded

EncFields(fields) == Flatten([i \in 1..Len(fields) |-> EncVB(fields[i])])

EV(value, label) == [value |-> value, label |-> label]

EncEnumValue(v) ==
  LET ui == EncVB(VB(CB_TAG_CFR_VARCHAR_UI_NAME, v.label))
  IN U32(CB_TAG_CFR_ENUM_VALUE) \o U32(sizeof_CFR_ENUM_VALUE + Len(ui)) \o U32(v.value) \o ui

EncEnumValues(vals) == Flatten([i \in 1..Len(vals) |-> EncEnumValue(vals[i])])

Num(tag, id, flags, def, fields, vals) ==
  [k |-> "num", tag |-> tag, id |-> id, flags |-> flags, def |-> def,
   fields |-> fields, vals |-> vals, pad |-> << >>]

NumPad(tag, id, flags, def, fields, vals, pad) ==
  [k |-> "num", tag |-> tag, id |-> id, flags |-> flags, def |-> def,
   fields |-> fields, vals |-> vals, pad |-> pad]

Chr(tag, id, flags, fields) ==
  [k |-> "chr", tag |-> tag, id |-> id, flags |-> flags, fields |-> fields, pad |-> << >>]

ChrPad(tag, id, flags, fields, pad) ==
  [k |-> "chr", tag |-> tag, id |-> id, flags |-> flags, fields |-> fields, pad |-> pad]

Frm(id, flags, name, children) ==
  [k |-> "form", tag |-> CB_TAG_CFR_OPTION_FORM, id |-> id, flags |-> flags,
   fields |-> << VB(CB_TAG_CFR_VARCHAR_UI_NAME, name) >>, children |-> children]

\* A record of a kind the driver does not know: its tag, the size it
\* declares, and what follows its two header words
Oth(tag, size, body) == [k |-> "other", tag |-> tag, size |-> size, body |-> body]

RECURSIVE EncItem(_)
EncItem(i) ==
  CASE i.k = "num" ->
         LET body == EncFields(i.fields) \o EncEnumValues(i.vals) \o i.pad
         IN U32(i.tag) \o U32(sizeof_CFR_OPTION_NUMERIC + Len(body)) \o U64(i.id) \o U64(0)
              \o U32(i.flags) \o U32(i.def) \o body
    [] i.k = "chr" ->
         LET body == EncFields(i.fields) \o i.pad
         IN U32(i.tag) \o U32(sizeof_CFR_OPTION_VARCHAR + Len(body)) \o U64(i.id) \o U64(0)
              \o U32(i.flags) \o body
    [] i.k = "form" ->
         LET body == EncFields(i.fields)
                       \o Flatten([j \in 1..Len(i.children) |-> EncItem(i.children[j])])
         IN U32(i.tag) \o U32(sizeof_CFR_OPTION_FORM + Len(body)) \o U64(i.id) \o U64(0)
              \o U32(i.flags) \o body
    [] i.k = "other" -> U32(i.tag) \o U32(i.size) \o i.body


(***************************************************************************)
(* Test inputs: lists of CFR trees, one tree per GUID HOB.                 *)
(***************************************************************************)
OptName(s) == VB(CB_TAG_CFR_VARCHAR_OPT_NAME, s)
UiName(s) == VB(CB_TAG_CFR_VARCHAR_UI_NAME, s)
HelpText(s) == VB(CB_TAG_CFR_VARCHAR_UI_HELPTEXT, s)
DefValue(s) == VB(CB_TAG_CFR_VARCHAR_DEF_VALUE, s)

\* "Main" {Foo = 7} and "Advanced" {Foo = 3}
TreesMainAdvanced ==
  << Frm(1, 0, S_Main,
         << Num(CB_TAG_CFR_OPTION_NUMBER, 2, 0, 7, << OptName(S_Foo), UiName(S_Foo) >>, << >>) >>),
     Frm(3, 0, S_Advanced,
         << Num(CB_TAG_CFR_OPTION_NUMBER, 4, 0, 3,
                << OptName(S_Foo), UiName(S_Foo), HelpText(S_Help) >>, << >>),
            Chr(CB_TAG_CFR_OPTION_COMMENT, 5, 0, << UiName(S_Txt), HelpText(S_Help) >>) >>) >>

\* Options of every kind, with help text on each, the comment last
TreesAllKinds ==
  << Frm(1, 0, S_Main,
         << Num(CB_TAG_CFR_OPTION_BOOL, 2, 0, 1,
                << OptName(S_Foo), UiName(S_Foo), HelpText(S_Help) >>, << >>),
            Num(CB_TAG_CFR_OPTION_ENUM, 3, 0, 5,
                << OptName(S_Bar), UiName(S_Bar), HelpText(S_Help) >>,
                << EV(5, S_On), EV(6, S_Off) >>),
            Chr(CB_TAG_CFR_OPTION_VARCHAR, 4, 0,
                << DefValue(S_On), OptName(S_Baz), UiName(S_Baz), HelpText(S_Help) >>),
            Chr(CB_TAG_CFR_OPTION_COMMENT, 5, 0, << UiName(S_Txt), HelpText(S_Help) >>) >>) >>

\* A nested form between two options
TreesNested ==
  << Frm(1, 0, S_Main,
         << Num(CB_TAG_CFR_OPTION_NUMBER, 2, 0, 7,
                << OptName(S_Foo), UiName(S_Foo), HelpText(S_Help) >>, << >>),
            Frm(3, 0, S_Sub,
                << Num(CB_TAG_CFR_OPTION_ENUM, 4, 0, 1,
                       << OptName(S_Bar), UiName(S_Bar) >>, << EV(1, S_On) >>),
                   Chr(CB_TAG_CFR_OPTION_COMMENT, 5, 0,
                       << UiName(S_Txt), HelpText(S_Help) >>) >>) >>) >>

\* A nested form that carries the name of an option of a later tree
TreesFormNamedFoo ==
  << Frm(1, 0, S_Main,
         << Frm(2, 0, S_Foo,
                << Chr(CB_TAG_CFR_OPTION_COMMENT, 3, 0,
                       << UiName(S_Txt), HelpText(S_Help) >>) >>) >>),
     Frm(4, 0, S_Advanced,
         << Num(CB_TAG_CFR_OPTION_NUMBER, 5, 0, 3,
                << OptName(S_Foo), UiName(S_Foo), HelpText(S_Help) >>, << >>),
            Chr(CB_TAG_CFR_OPTION_COMMENT, 6, 0, << UiName(S_Txt), HelpText(S_Help) >>) >>) >>

\* A string option whose default value is n bytes long, then two siblings
TreesVarchar(n) ==
  << Frm(1, 0, S_Main,
         << Chr(CB_TAG_CFR_OPTION_VARCHAR, 2, 0,
                << VBn(CB_TAG_CFR_VARCHAR_DEF_VALUE, S_On, n), OptName(S_Baz), UiName(S_Baz),
                   HelpText(S_Help) >>),
            Num(CB_TAG_CFR_OPTION_NUMBER, 3, 0, 7,
                << OptName(S_Foo), UiName(S_Foo), HelpText(S_Help) >>, << >>),
            Chr(CB_TAG_CFR_OPTION_COMMENT, 4, 0, << UiName(S_Txt), HelpText(S_Help) >>) >>) >>

\* A string option laid out as the header's comment lists its fields
TreesVarcharHeaderOrder ==
  << Frm(1, 0, S_Main,
         << Chr(CB_TAG_CFR_OPTION_VARCHAR, 2, 0,
                << OptName(S_Baz), UiName(S_Baz), HelpText(S_Help), DefValue(S_On) >>),
            Num(CB_TAG_CFR_OPTION_NUMBER, 3, 0, 7,
                << OptName(S_Foo), UiName(S_Foo), HelpText(S_Help) >>, << >>),
            Chr(CB_TAG_CFR_OPTION_COMMENT, 4, 0, << UiName(S_Txt), HelpText(S_Help) >>) >>) >>

\* Corrupted options, each with a valid outer size, followed by siblings:
\* junk after the last field
TreesJunk ==
  << Frm(1, 0, S_Main,
         << NumPad(CB_TAG_CFR_OPTION_NUMBER, 2, 0, 9,
                   << OptName(S_Bar), UiName(S_Bar), HelpText(S_Help) >>, << >>, U32(0) \o U32(0)),
            Num(CB_TAG_CFR_OPTION_NUMBER, 3, 0, 7,
                << OptName(S_Foo), UiName(S_Foo), HelpText(S_Help) >>, << >>),
            Chr(CB_TAG_CFR_OPTION_COMMENT, 4, 0, << UiName(S_Txt), HelpText(S_Help) >>) >>) >>

\* a help-text field whose size field is 4 too large
TreesSkew ==
  << Frm(1, 0, S_Main,
         << ChrPad(CB_TAG_CFR_OPTION_COMMENT, 2, 0,
                   << UiName(S_Txt), VBsz(CB_TAG_CFR_VARCHAR_UI_HELPTEXT, S_Help, 4) >>, << >>),
            Num(CB_TAG_CFR_OPTION_NUMBER, 3, 0, 7,
                << OptName(S_Foo), UiName(S_Foo), HelpText(S_Help) >>, << >>),
            Chr(CB_TAG_CFR_OPTION_COMMENT, 4, 0, << UiName(S_Txt), HelpText(S_Help) >>) >>) >>

\* a UI name whose data_length is shorter than its string
TreesBadLength ==
  << Frm(1, 0, S_Main,
         << Num(CB_TAG_CFR_OPTION_BOOL, 2, 0, 1,
                << OptName(S_Bar), VBdl(CB_TAG_CFR_VARCHAR_UI_NAME, S_Bar, 1), HelpText(S_Help) >>,
                << >>),
            Num(CB_TAG_CFR_OPTION_NUMBER, 3, 0, 7,
                << OptName(S_Foo), UiName(S_Foo), HelpText(S_Help) >>, << >>),
            Chr(CB_TAG_CFR_OPTION_COMMENT, 4, 0, << UiName(S_Txt), HelpText(S_Help) >>) >>) >>

\* the mandatory UI name absent
TreesMissing ==
  << Frm(1, 0, S_Main,
         << Num(CB_TAG_CFR_OPTION_NUMBER, 2, 0, 9, << OptName(S_Bar), HelpText(S_Help) >>, << >>),
            Num(CB_TAG_CFR_OPTION_NUMBER, 3, 0, 7,
                << OptName(S_Foo), UiName(S_Foo), HelpText(S_Help) >>, << >>),
            Chr(CB_TAG_CFR_OPTION_COMMENT, 4, 0, << UiName(S_Txt), HelpText(S_Help) >>) >>) >>

\* the internal name's tag overwritten
TreesBadTag ==
  << Frm(1, 0, S_Main,
         << Num(CB_TAG_CFR_OPTION_NUMBER, 2, 0, 9,
                << VB(0, S_Bar), UiName(S_Bar), HelpText(S_Help) >>, << >>),
            Num(CB_TAG_CFR_OPTION_NUMBER, 3, 0, 7,
                << OptName(S_Foo), UiName(S_Foo), HelpText(S_Help) >>, << >>),
            Chr(CB_TAG_CFR_OPTION_COMMENT, 4, 0, << UiName(S_Txt), HelpText(S_Help) >>) >>) >>

\* A record with a tag the driver does not know, between two options
TreesUnknown ==
  << Frm(1, 0, S_Main,
         << Num(CB_TAG_CFR_OPTION_BOOL, 2, 0, 1,
                << OptName(S_Bar), UiName(S_Bar), HelpText(S_Help) >>, << >>),
            Oth(99, 16, Zeros(8)),
            Num(CB_TAG_CFR_OPTION_NUMBER, 3, 0, 7,
                << OptName(S_Foo), UiName(S_Foo), HelpText(S_Help) >>, << >>),
            Chr(CB_TAG_CFR_OPTION_COMMENT, 4, 0, << UiName(S_Txt), HelpText(S_Help) >>) >>) >>

\* Enums of three values and of none, then a number and a checkbox
TreesEnums ==
  << Frm(1, 0, S_Main,
         << Num(CB_TAG_CFR_OPTION_ENUM, 2, 0, 6,
                << OptName(S_Bar), UiName(S_Bar) >>,
                << EV(5, S_On), EV(6, S_Off), EV(7, S_None) >>),
            Num(CB_TAG_CFR_OPTION_ENUM, 3, 0, 0,
                << OptName(S_Baz), UiName(S_Baz), HelpText(S_Help) >>, << >>),
            Num(CB_TAG_CFR_OPTION_NUMBER, 4, 0, 7,
                << OptName(S_Foo), UiName(S_Foo), HelpText(S_Help) >>, << >>),
            Num(CB_TAG_CFR_OPTION_BOOL, 5, 0, 1,
                << OptName(S_Sub), UiName(S_Sub), HelpText(S_Help) >>, << >>) >>) >>

\* A record that declares a size of zero, in front of an option
TreesZeroSize ==
  << Frm(1, 0, S_Main,
         << Oth(99, 0, Zeros(8)),
            Num(CB_TAG_CFR_OPTION_NUMBER, 2, 0, 7,
                << OptName(S_Foo), UiName(S_Foo), HelpText(S_Help) >>, << >>) >>) >>

\* An enum whose only value declares a size of zero, then an option
TreesZeroEnumValue ==
  << Frm(1, 0, S_Main,
         << NumPad(CB_TAG_CFR_OPTION_ENUM, 2, 0, 5,
                   << OptName(S_Bar), UiName(S_Bar), HelpText(S_Help) >>, << >>,
                   U32(CB_TAG_CFR_ENUM_VALUE) \o U32(0) \o U32(5) \o EncVB(UiName(S_On))),
            Num(CB_TAG_CFR_OPTION_NUMBER, 3, 0, 7,
                << OptName(S_Foo), UiName(S_Foo), HelpText(S_Help) >>, << >>) >>) >>

\* An internal name stored in a field of eight bytes: "Foo" and five NULs
TreesPaddedName ==
  << Frm(1, 0, S_Main,
         << Num(CB_TAG_CFR_OPTION_NUMBER, 2, 0, 7,
                << VBn(CB_TAG_CFR_VARCHAR_OPT_NAME, S_Foo, 8), UiName(S_Foo),
                   HelpText(S_Help) >>, << >>),
            Chr(CB_TAG_CFR_OPTION_COMMENT, 3, 0, << UiName(S_Txt), HelpText(S_Help) >>) >>) >>

\* A string option without a default-value field, then an option
TreesNoDefault ==
  << Frm(1, 0, S_Main,
         << Chr(CB_TAG_CFR_OPTION_VARCHAR, 2, 0,
                << OptName(S_Baz), UiName(S_Baz), HelpText(S_Help) >>),
            Num(CB_TAG_CFR_OPTION_NUMBER, 3, 0, 7,
                << OptName(S_Foo), UiName(S_Foo), HelpText(S_Help) >>, << >>) >>) >>

\* A tree of a form, an enum and a comment, with the flags given to each
TreeWithFlags(form, enum, comment) ==
  Frm(1, form, S_Main,
      << Num(CB_TAG_CFR_OPTION_ENUM, 2, enum, 5,
             << OptName(S_Bar), UiName(S_Bar), HelpText(S_Help) >>, << EV(5, S_On) >>),
         Chr(CB_TAG_CFR_OPTION_COMMENT, 3, comment, << UiName(S_Txt), HelpText(S_Help) >>) >>)

\* A tree with flags on every record
TreeFlagged ==
  TreeWithFlags(CFR_OPTFLAG_SUPPRESS + CFR_OPTFLAG_GRAYOUT,
                CFR_OPTFLAG_READONLY + CFR_OPTFLAG_SUPPRESS + CFR_OPTFLAG_VOLATILE,
                CFR_OPTFLAG_GRAYOUT)

\* Two trees that differ in their flags fields only, in both orders
TreesFlagsFirst == << TreeFlagged, TreeWithFlags(0, 0, 0) >>

TreesFlagsSecond == << TreeWithFlags(0, 0, 0), TreeFlagged >>

\* A tree whose records carry the flags in several combinations
TreesFlagKinds ==
  << Frm(1, CFR_OPTFLAG_SUPPRESS, S_Main,
         << Num(CB_TAG_CFR_OPTION_NUMBER, 2, CFR_OPTFLAG_READONLY, 7,
                << OptName(S_Foo), UiName(S_Foo), HelpText(S_Help) >>, << >>),
            Num(CB_TAG_CFR_OPTION_BOOL, 3, CFR_OPTFLAG_VOLATILE + CFR_OPTFLAG_GRAYOUT, 1,
                << OptName(S_Bar), UiName(S_Bar) >>, << >>),
            Chr(CB_TAG_CFR_OPTION_VARCHAR, 4,
                CFR_OPTFLAG_READONLY + CFR_OPTFLAG_VOLATILE + CFR_OPTFLAG_SUPPRESS,
                << DefValue(S_On), OptName(S_Baz), UiName(S_Baz), HelpText(S_Help) >>),
            Num(CB_TAG_CFR_OPTION_ENUM, 5,
                CFR_OPTFLAG_SUPPRESS + CFR_OPTFLAG_GRAYOUT + CFR_OPTFLAG_RUNTIME, 5,
                << OptName(S_Sub), UiName(S_Sub), HelpText(S_Help) >>, << EV(5, S_On) >>),
            Chr(CB_TAG_CFR_OPTION_COMMENT, 6, CFR_OPTFLAG_READONLY + CFR_OPTFLAG_VOLATILE,
                << UiName(S_Txt), HelpText(S_Help) >>) >>) >>

\* An option whose internal-name field is eight bytes longer than its
\* string and the terminator, then an option
TreesSpillingName ==
  << Frm(1, 0, S_Main,
         << Num(CB_TAG_CFR_OPTION_NUMBER, 2, 0, 7,
                << VBn(CB_TAG_CFR_VARCHAR_OPT_NAME, S_Foo, 12), UiName(S_Foo),
                   HelpText(S_Help) >>, << >>),
            Num(CB_TAG_CFR_OPTION_BOOL, 3, 0, 1,
                << OptName(S_Bar), UiName(S_Bar) >>, << >>) >>) >>

Scenarios ==
  << << >>,
     TreesMainAdvanced,
     TreesAllKinds,
     TreesNested,
     TreesFormNamedFoo,
     TreesVarchar(3),
     TreesVarchar(MAX_DEFAULT_LENGTH),
     TreesVarchar(MAX_DEFAULT_LENGTH + 1),
     TreesVarchar(300),
     TreesVarcharHeaderOrder,
     TreesJunk,
     TreesSkew,
     TreesBadLength,
     TreesMissing,
     TreesBadTag,
     TreesUnknown,
     TreesEnums,
     TreesZeroSize,
     TreesZeroEnumValue,
     TreesPaddedName,
     TreesNoDefault,
     TreesFlagsFirst,
     TreesFlagsSecond,
     TreesFlagKinds,
     TreesSpillingName >>

EncodeTrees(trees) == [i \in 1..Len(trees) |-> EncItem(trees[i])]

\* What a read outside a buffer, or through NULL, may return: a 32-bit word
\* and a string
Garbage ==
  { [w |-> w, s |-> s] :
      w \in {0, CB_TAG_CFR_VARCHAR_UI_NAME, CB_TAG_CFR_VARCHAR_UI_HELPTEXT, 300},
      s \in {<< >>, S_Foo} }


VARIABLES
  hobs,             \* the CFR buffers, in GUID HOB order
  scn,              \* which of Scenarios the buffers encode
  assertsOn,        \* whether the build enables ASSERT ()
  mVariablePolicy,  \* whether the variable policy protocol was located
  pass,             \* how many times the entry point has run
  store,            \* the variable store: name -> [attr, size, data]
  locked,           \* names the policy has locked
  wpc,              \* position of CfrSetupMenuEntryPoint / CfrCreateRuntimeComponents
  wHob,             \* walker: GuidHob (index into hobs)
  wLen,             \* walker: ProcessedLength
  wOpt,             \* walker: locals of CfrProcessNumericOption while it runs
  ops,              \* walker: opcodes in StartOpCodeHandle
  optOps,           \* walker: opcodes in OptionOpCodeHandle
  form,             \* opcodes HiiUpdateForm installed
  wlog,             \* walker: debug output and what each handler did
  rpc,              \* position of CfrOptionGetDefaultValue
  rArgs,            \* resolver: the call's arguments
  rHob,             \* resolver: GuidHob (index into hobs)
  rLen,             \* resolver: ProcessedLength
  rOut,             \* resolver: status, *DefaultValueData, *DefaultValueLength
  rlog,             \* resolver: what each step visited
  rAlone,           \* the lookup that ran before the driver started, as it returned
  xcalls            \* the CfrExtractVarBinary calls of the last step

vars ==
  << hobs, scn, assertsOn, mVariablePolicy, pass, store, locked, wpc, wHob, wLen, wOpt, ops, optOps,
     form, wlog, rpc, rArgs, rHob, rLen, rOut, rlog, rAlone, xcalls >>

walkerVars == << mVariablePolicy, pass, store, locked, wpc, wHob, wLen, wOpt, ops, optOps, form, wlog >>

resolverVars == << rpc, rArgs, rHob, rLen, rOut, rlog, rAlone >>

(***************************************************************************)
(* Memory.  A pointer is a buffer and a byte offset into it; NULL has no   *)
(* buffer.                                                                 *)
(***************************************************************************)
NULL == [h |-> 0, a |-> 0]

Ptr(h, a) == [h |-> h, a |-> a]

PtrAdd(p, n) == [h |-> p.h, a |-> p.a + n]

InBuffer(p, n) == p.h # 0 /\ p.a + n <= Len(hobs[p.h])

\* *(UINT32 *)((UINT8 *)p + off)
Rd32(p, off, g) ==
  IF InBuffer(p, off + 4)
    THEN LET b == hobs[p.h]
             q == p.a + off
         IN b[q + 1] + 256 * b[q + 2] + 65536 * b[q + 3] + 16777216 * b[q + 4]
    ELSE g.w

\* The NUL-terminated string at (CHAR8 *)p + off
CStr(p, off, g) ==
  IF ~InBuffer(p, off + 1)
    THEN g.s
    ELSE LET b == hobs[p.h]
             nuls == {j \in (p.a + off + 1)..Len(b) : b[j] = 0}
         IN IF nuls = {}
              THEN g.s
              ELSE SubSeq(b, p.a + off + 1, (CHOOSE j \in nuls : \A k \in nuls : j <= k) - 1)

RecTag(p, g) == Rd32(p, 0, g)
RecSize(p, g) == Rd32(p, offsetof_size, g)
RecFlags(p, g) == Rd32(p, offsetof_flags, g)
RecObjectId(p, g) == Rd32(p, 8, g)
VbDataLength(p, g) == Rd32(p, offsetof_data_length, g)
VbData(p, g) == CStr(p, sizeof_CFR_VARBINARY, g)

\* The n bytes at (UINT8 *)p + off, as CopyMem reads them
Bytes(p, off, n, g) ==
  [i \in 1..n |-> IF InBuffer(p, off + i) THEN hobs[p.h][p.a + off + i] ELSE g.w % 256]

Min(a, b) == IF a <= b THEN a ELSE b

\* How far onto a buffer the model follows bytes written past the end of
\* an allocation: as far as the tag of its root record, or as far as the
\* tag and the size
SpillReach == {offsetof_size, offsetof_flags}

\* What follows a pool allocation in memory: none of the CFR buffers
\* (h = 0), or the buffer of that index, at a distance that lets the last
\* bytes written past the allocation cover the first reach bytes of it
PastAllocation ==
  {[h |-> 0, reach |-> 0]} \cup {[h |-> h, reach |-> n] : h \in 1..Len(hobs), n \in SpillReach}

\* Memory once bytes have been written past the end of an allocation that
\* a buffer follows.  The bytes cross the pool's own bookkeeping first; the
\* last of them land on the first bytes of the buffer.
Spilled(mem, past, bytes) ==
  IF past.h = 0 \/ bytes = << >>
    THEN mem
    ELSE LET n == Min(Len(bytes), past.reach)
             h == past.h
             b == mem[h]
         IN [mem EXCEPT ![h] = [i \in 1..Len(b) |->
                                  IF i <= n THEN bytes[Len(bytes) - n + i] ELSE b[i]]]

(***************************************************************************)
(* CfrExtractVarBinary                                                     *)
(***************************************************************************)
\* A variant that advances by the header plus data_length, not by size
CfrExtractVarBinaryBySize(Buffer, Offset, TargetTag, g) ==
  LET CfrVarBinary == PtrAdd(Buffer, Offset)
  IN IF RecTag(CfrVarBinary, g) # TargetTag
       THEN [ret |-> NULL, Offset |-> Offset]
       ELSE [ret |-> CfrVarBinary,
             Offset |-> Offset + sizeof_CFR_VARBINARY + VbDataLength(CfrVarBinary, g)]

\* part_000 lines 26-44
CfrExtractVarBinary(Buffer, Offset, TargetTag, g) ==
  LET CfrVarBinary == PtrAdd(Buffer, Offset)
  IN IF RecTag(CfrVarBinary, g) # TargetTag
       THEN [ret |-> NULL, Offset |-> Offset]
       ELSE [ret |-> CfrVarBinary, Offset |-> Offset + RecSize(CfrVarBinary, g)]

\* One call, as the steps record it: limit is the declared size of the
\* record the caller is decoding, counted from Buffer
XCall(by, Buffer, Offset, TargetTag, limit, g) ==
  LET r == CfrExtractVarBinary(Buffer, Offset, TargetTag, g)
  IN [by |-> by, Buffer |-> Buffer, Offset |-> Offset, TargetTag |-> TargetTag,
      limit |-> limit, ret |-> r.ret, NewOffset |-> r.Offset]

(***************************************************************************)
(* Library and firmware services the driver calls.                         *)
(***************************************************************************)
AsciiStrCmp(a, b) == IF a = b THEN 0 ELSE 1

\* Widens each character; fails, writing nothing, unless the string and
\* its terminator fit in DestMax characters
AsciiStrToUnicodeStrS(src, DestMax) ==
  IF DestMax = 0 \/ Len(src) >= DestMax
    THEN [error |-> TRUE, str |-> << >>]
    ELSE [error |-> FALSE, str |-> [i \in 1..Len(src) |-> [c16 |-> src[i]]]]

GetVariableStatus(st, name) ==
  IF name = << >> \/ name \notin DOMAIN st THEN "EFI_NOT_FOUND" ELSE "EFI_BUFFER_TOO_SMALL"

SetVariable(st, lk, name, attr, size, data) ==
  IF name = << >>
    THEN [status |-> "EFI_INVALID_PARAMETER", store |-> st]
    ELSE IF name \in lk
      THEN [status |-> "EFI_WRITE_PROTECTED", store |-> st]
      ELSE [status |-> "EFI_SUCCESS",
            store |-> [n \in DOMAIN st \cup {name} |->
                         IF n = name THEN [attr |-> attr, size |-> size, data |-> data]
                                     ELSE st[n]]]

sizeof_EFI_IFR_VARSTORE == 23
MAX_VARSTORE_LENGTH == 127

\* STR_EMPTY_STRING and STR_INVALID_STRING of the driver's string package
STR_EMPTY_STRING == << >>
STR_INVALID_STRING == << [c16 |-> 63] >>

(***************************************************************************)
(* CfrConvertVarBinaryToStrings: the string, and whether an assertion of   *)
(* the function failed.  After a failed conversion the pool holds          *)
(* whatever it held.                                                       *)
(***************************************************************************)
CfrConvertVarBinaryToStrings(CfrString, g) ==
  LET conv == AsciiStrToUnicodeStrS(VbData(CfrString, g), VbDataLength(CfrString, g))
  IN [failed |-> CfrString = NULL \/ conv.error,
      str |-> IF conv.error THEN [i \in 1..Len(g.s) |-> [c16 |-> g.s[i]]] ELSE conv.str]

(***************************************************************************)
(* CfrProduceHiiForFlags                                                   *)
(***************************************************************************)
CfrProduceHiiForFlags(OpCode) ==
  IF OpCode # "EFI_IFR_SUPPRESS_IF_OP" /\ OpCode # "EFI_IFR_GRAY_OUT_IF_OP"
    THEN << >>
    ELSE << [op |-> OpCode, scope |-> 1], [op |-> "EFI_IFR_TRUE_OP", scope |-> 0] >>

FlagsOpen(flags) ==
  (IF HasFlag(flags, CFR_OPTFLAG_SUPPRESS)
     THEN CfrProduceHiiForFlags("EFI_IFR_SUPPRESS_IF_OP") ELSE << >>)
  \o (IF HasFlag(flags, CFR_OPTFLAG_GRAYOUT)
        THEN CfrProduceHiiForFlags("EFI_IFR_GRAY_OUT_IF_OP") ELSE << >>)

EndOp == [op |-> "EFI_IFR_END_OP", scope |-> 0]

\* A variant that closes one scope however many were opened
FlagsCloseOnce(flags) ==
  IF HasFlag(flags, CFR_OPTFLAG_GRAYOUT) \/ HasFlag(flags, CFR_OPTFLAG_SUPPRESS)
    THEN << EndOp >> ELSE << >>

FlagsClose(flags) ==
  (IF HasFlag(flags, CFR_OPTFLAG_GRAYOUT) THEN << EndOp >> ELSE << >>)
  \o (IF HasFlag(flags, CFR_OPTFLAG_SUPPRESS) THEN << EndOp >> ELSE << >>)

(***************************************************************************)
(* CfrProduceStorageForOption.  Yields the store, the locks, the opcodes   *)
(* appended, and halt when an enabled assertion failed (nothing is         *)
(* written after it).                                                      *)
(***************************************************************************)
\* A variant that grants runtime access to the options flagged for it
VariableAttributesRuntime(OptionFlags) ==
  {"EFI_VARIABLE_BOOTSERVICE_ACCESS"}
    \cup (IF ~HasFlag(OptionFlags, CFR_OPTFLAG_VOLATILE)
            THEN {"EFI_VARIABLE_NON_VOLATILE"} ELSE {})
    \cup (IF HasFlag(OptionFlags, CFR_OPTFLAG_RUNTIME)
            THEN {"EFI_VARIABLE_RUNTIME_ACCESS"} ELSE {})

\* Lines 143-146
VariableAttributes(OptionFlags) ==
  {"EFI_VARIABLE_BOOTSERVICE_ACCESS"}
    \cup (IF ~HasFlag(OptionFlags, CFR_OPTFLAG_VOLATILE)
            THEN {"EFI_VARIABLE_NON_VOLATILE"} ELSE {})

\* A variant of the test that writes the default unless the read succeeded
DefaultIsWrittenUnlessRead(Status) == Status # "EFI_SUCCESS"

\* if (Status == EFI_NOT_FOUND) (line 156)
DefaultIsWritten(Status) == Status = "EFI_NOT_FOUND"

\* CopyMem (VarStore->Name, CfrOptionName->data, CfrOptionName->data_length)
\* (line 213) into an allocation with room for the string and its terminator
\* (lines 189-198): the bytes written past the end of the allocation
VarStoreNameSpill(CfrOptionName, g) ==
  LET room == Len(VbData(CfrOptionName, g)) + 1
      n == VbDataLength(CfrOptionName, g)
  IN IF n > room
       THEN Bytes(CfrOptionName, sizeof_CFR_VARBINARY + room, n - room, g)
       ELSE << >>

\* A variant in which the lock request has been made when SetVariable runs
LocksAtWriteAfterRequest(lk, name, wantLock, lockOk) ==
  IF wantLock /\ lockOk THEN lk \cup {name} ELSE lk

\* The locks in force when SetVariable runs (line 158): those in force at
\* the call, the request of line 169 not yet made
LocksAtWrite(lk, name, wantLock, lockOk) == lk

\* A variant that asks for the lock of every read-only option
LockRequestedAlways(OptionFlags) == HasFlag(OptionFlags, CFR_OPTFLAG_READONLY)

\* OptionFlags & CFR_OPTFLAG_READONLY && mVariablePolicy != NULL (line 168)
LockRequested(OptionFlags) == HasFlag(OptionFlags, CFR_OPTFLAG_READONLY) /\ mVariablePolicy

\* The function once its name conversion (line 130) has produced name
ProduceStorageForName(name, CfrOptionName, DefaultValue, CfrOptionLength, OptionFlags, QuestionIdVarStoreId, st, lk, lockOk, g) ==
  LET VariableCfrName == name.str
      absent == DefaultIsWritten(GetVariableStatus(st, VariableCfrName))
      wantLock == LockRequested(OptionFlags)
      set == SetVariable(st, LocksAtWrite(lk, VariableCfrName, wantLock, lockOk),
                         VariableCfrName, VariableAttributes(OptionFlags),
                         CfrOptionLength, DefaultValue)
      tooLong == sizeof_EFI_IFR_VARSTORE + Len(VbData(CfrOptionName, g)) > MAX_VARSTORE_LENGTH
  IN IF assertsOn /\ name.failed
       THEN [halt |-> TRUE, store |-> st, locked |-> lk, ops |-> << >>,
             wrote |-> FALSE, lockreq |-> FALSE, spill |-> << >>]
     ELSE IF assertsOn /\ absent /\ set.status # "EFI_SUCCESS"
       THEN [halt |-> TRUE, store |-> st, locked |-> lk, ops |-> << >>,
             wrote |-> FALSE, lockreq |-> FALSE, spill |-> << >>]
     ELSE [halt |-> assertsOn /\ tooLong,
           store |-> IF absent THEN set.store ELSE st,
           locked |-> IF wantLock /\ lockOk THEN lk \cup {VariableCfrName} ELSE lk,
           wrote |-> absent /\ set.status = "EFI_SUCCESS",
           lockreq |-> wantLock,
           spill |-> IF tooLong THEN << >> ELSE VarStoreNameSpill(CfrOptionName, g),
           ops |-> IF tooLong
                     THEN << >>
                     ELSE << [op |-> "EFI_IFR_VARSTORE_OP", VarStoreId |-> QuestionIdVarStoreId,
                              Size |-> CfrOptionLength, Name |-> VbData(CfrOptionName, g)] >>]

CfrProduceStorageForOption(CfrOptionName, DefaultValue, CfrOptionLength, OptionFlags, QuestionIdVarStoreId, st, lk, lockOk, g) ==
  ProduceStorageForName(CfrConvertVarBinaryToStrings(CfrOptionName, g), CfrOptionName,
                        DefaultValue, CfrOptionLength, OptionFlags, QuestionIdVarStoreId,
                        st, lk, lockOk, g)

(***************************************************************************)
(* CfrProcessFormOption.  ProcessedLength counts from the root form, and   *)
(* the name is extracted at that offset from Option.                       *)
(***************************************************************************)
FormNameBase(Option) == Option

CfrProcessFormOption(Option, ProcessedLength, g) ==
  LET e == XCall("walker", FormNameBase(Option), ProcessedLength + sizeof_CFR_OPTION_FORM,
                 CB_TAG_CFR_VARCHAR_UI_NAME, RecSize(Option, g), g)
      name == CfrConvertVarBinaryToStrings(e.ret, g)
      flags == RecFlags(Option, g)
      halt == assertsOn /\ (e.ret = NULL \/ name.failed)
  IN [halt |-> halt,
      ProcessedLength |-> e.NewOffset,
      calls |-> << e >>,
      ops |-> IF halt
                THEN << >>
                ELSE FlagsOpen(flags)
                       \o << [op |-> "EFI_IFR_SUBTITLE_OP", Prompt |-> name.str] >>
                       \o FlagsClose(flags),
      ev |-> [ev |-> "form", hob |-> Option.h, off |-> Option.a,
              nameAt |-> e.Buffer.a + e.Offset, found |-> e.ret # NULL,
              name |-> name.str, after |-> e.NewOffset]]

(***************************************************************************)
(* What CfrProcessNumericOption and CfrProcessCharacterOption add to the   *)
(* root cursor when they return: the option's declared size, whatever they *)
(* consumed inside it.                                                     *)
(***************************************************************************)
AdvanceBy(size, consumed) == size

(***************************************************************************)
(* CfrProcessNumericOption, up to its enum-value loop.                     *)
(***************************************************************************)
QuestionFlags(flags) ==
  {"EFI_IFR_FLAG_RESET_REQUIRED"}
    \cup (IF HasFlag(flags, CFR_OPTFLAG_READONLY) THEN {"EFI_IFR_FLAG_READ_ONLY"} ELSE {})

\* A variant that does not look for the help text of a suppressed option
NumericExtractUnlessSuppressed(Option, g) ==
  LET size == RecSize(Option, g)
      e1 == XCall("walker", Option, sizeof_CFR_OPTION_NUMERIC, CB_TAG_CFR_VARCHAR_OPT_NAME, size, g)
      e2 == XCall("walker", Option, e1.NewOffset, CB_TAG_CFR_VARCHAR_UI_NAME, size, g)
      e3 == XCall("walker", Option, e2.NewOffset,
                  IF HasFlag(RecFlags(Option, g), CFR_OPTFLAG_SUPPRESS)
                    THEN 0 ELSE CB_TAG_CFR_VARCHAR_UI_HELPTEXT,
                  size, g)
  IN [e1 |-> e1, e2 |-> e2, e3 |-> e3]

\* The three extractions (lines 325-336)
NumericExtract(Option, g) ==
  LET size == RecSize(Option, g)
      e1 == XCall("walker", Option, sizeof_CFR_OPTION_NUMERIC, CB_TAG_CFR_VARCHAR_OPT_NAME, size, g)
      e2 == XCall("walker", Option, e1.NewOffset, CB_TAG_CFR_VARCHAR_UI_NAME, size, g)
      e3 == XCall("walker", Option, e2.NewOffset, CB_TAG_CFR_VARCHAR_UI_HELPTEXT, size, g)
  IN [e1 |-> e1, e2 |-> e2, e3 |-> e3]

\* What the function has done when it reaches the enum-value loop, given
\* its extractions f, its storage stor and its two strings
NumericOptionResult(Option, st, lk, g, f, stor, disp, help) ==
  LET flags == RecFlags(Option, g)
      loc == [Option |-> Option, OptionProcessedLength |-> f.e3.NewOffset,
              QuestionIdVarStoreId |-> CFR_COMPONENT_START + RecObjectId(Option, g),
              QuestionFlags |-> QuestionFlags(flags),
              Default |-> Rd32(Option, offsetof_default_value, g),
              Prompt |-> disp.str, Help |-> help.str,
              name |-> VbData(f.e1.ret, g),
              missing |-> f.e1.ret = NULL \/ f.e2.ret = NULL,
              helpFound |-> f.e3.ret # NULL, wrote |-> stor.wrote, lockreq |-> stor.lockreq]
  IN IF assertsOn /\ f.e1.ret = NULL
       THEN [halt |-> TRUE, calls |-> << f.e1 >>, store |-> st, locked |-> lk, ops |-> << >>,
             spill |-> << >>, loc |-> loc]
     ELSE IF assertsOn /\ f.e2.ret = NULL
       THEN [halt |-> TRUE, calls |-> << f.e1, f.e2 >>, store |-> st, locked |-> lk,
             ops |-> << >>, spill |-> << >>, loc |-> loc]
     ELSE IF stor.halt
       THEN [halt |-> TRUE, calls |-> << f.e1, f.e2, f.e3 >>, store |-> stor.store,
             locked |-> stor.locked, ops |-> << >>, spill |-> stor.spill, loc |-> loc]
     ELSE [halt |-> assertsOn /\ (disp.failed \/ help.failed),
           calls |-> << f.e1, f.e2, f.e3 >>,
           store |-> stor.store,
           locked |-> stor.locked,
           ops |-> stor.ops \o FlagsOpen(flags),
           spill |-> stor.spill,
           loc |-> loc]

\* The help string of an option (lines 385-390)
HelpString(e, g) ==
  IF e.ret # NULL
    THEN CfrConvertVarBinaryToStrings(e.ret, g)
    ELSE [failed |-> FALSE, str |-> STR_EMPTY_STRING]

NumericOptionStore(Option, st, lk, lockOk, g, f) ==
  NumericOptionResult(Option, st, lk, g, f,
    CfrProduceStorageForOption(f.e1.ret, Rd32(Option, offsetof_default_value, g), 4,
                               RecFlags(Option, g),
                               CFR_COMPONENT_START + RecObjectId(Option, g),
                               st, lk, lockOk, g),
    CfrConvertVarBinaryToStrings(f.e2.ret, g),
    HelpString(f.e3, g))

NumericOptionBegin(Option, st, lk, lockOk, g) ==
  NumericOptionStore(Option, st, lk, lockOk, g, NumericExtract(Option, g))

\* A variant of the iteration that steps over the fixed part of the
\* enum-value record only
EnumValueStepFixedPart(loc, g) ==
  LET CfrEnumValues == PtrAdd(loc.Option, loc.OptionProcessedLength)
      CfrEnumUiString == PtrAdd(CfrEnumValues, sizeof_CFR_ENUM_VALUE)
      label == CfrConvertVarBinaryToStrings(CfrEnumUiString, g)
  IN [halt |-> FALSE,
      opt |-> [op |-> "EFI_IFR_ONE_OF_OPTION_OP", Text |-> label.str,
               Value |-> Rd32(CfrEnumValues, offsetof_enum_value, g)],
      OptionProcessedLength |-> loc.OptionProcessedLength + sizeof_CFR_ENUM_VALUE]

\* One iteration of the enum-value loop
EnumValueStep(loc, g) ==
  LET CfrEnumValues == PtrAdd(loc.Option, loc.OptionProcessedLength)
      CfrEnumUiString == PtrAdd(CfrEnumValues, sizeof_CFR_ENUM_VALUE)
      label == CfrConvertVarBinaryToStrings(CfrEnumUiString, g)
      bad == RecTag(CfrEnumValues, g) # CB_TAG_CFR_ENUM_VALUE
               \/ RecTag(CfrEnumUiString, g) # CB_TAG_CFR_VARCHAR_UI_NAME
               \/ label.failed
  IN [halt |-> assertsOn /\ bad,
      opt |-> [op |-> "EFI_IFR_ONE_OF_OPTION_OP", Text |-> label.str,
               Value |-> Rd32(CfrEnumValues, offsetof_enum_value, g)],
      OptionProcessedLength |-> loc.OptionProcessedLength + RecSize(CfrEnumValues, g)]

\* The question opcode of a numeric option
NumericQuestion(loc, tag, options) ==
  LET q == [QuestionId |-> loc.QuestionIdVarStoreId, VarStoreId |-> loc.QuestionIdVarStoreId,
            Prompt |-> loc.Prompt, Help |-> loc.Help, QuestionFlags |-> loc.QuestionFlags,
            Default |-> loc.Default]
  IN IF tag = CB_TAG_CFR_OPTION_ENUM
       THEN << [op |-> "EFI_IFR_ONE_OF_OP", q |-> q, Options |-> options] >>
     ELSE IF tag = CB_TAG_CFR_OPTION_NUMBER
       THEN << [op |-> "EFI_IFR_NUMERIC_OP", q |-> q, Options |-> << >>] >>
     ELSE IF tag = CB_TAG_CFR_OPTION_BOOL
       THEN << [op |-> "EFI_IFR_CHECKBOX_OP", q |-> q, Options |-> << >>] >>
     ELSE << >>

(***************************************************************************)
(* CfrProcessCharacterOption                                               *)
(***************************************************************************)
\* A variant of the limit that lets a default of 256 bytes through
DefaultTooLongAbove(dl) == dl > MAX_DEFAULT_LENGTH + 1

\* CfrDefaultValue->data_length > 0xFF (line 526)
DefaultTooLong(dl) == dl > MAX_DEFAULT_LENGTH

\* The extractions (lines 520-543 for a VARCHAR, 545-551 for a COMMENT)
CharacterExtract(Option, g) ==
  LET size == RecSize(Option, g)
      isVarchar == RecTag(Option, g) = CB_TAG_CFR_OPTION_VARCHAR
      e0 == XCall("walker", Option, sizeof_CFR_OPTION_VARCHAR, CB_TAG_CFR_VARCHAR_DEF_VALUE, size, g)
      e1 == XCall("walker", Option,
                  IF isVarchar THEN e0.NewOffset ELSE sizeof_CFR_OPTION_VARCHAR,
                  CB_TAG_CFR_VARCHAR_OPT_NAME, size, g)
      e2 == XCall("walker", Option,
                  IF isVarchar THEN e1.NewOffset ELSE sizeof_CFR_OPTION_VARCHAR,
                  CB_TAG_CFR_VARCHAR_UI_NAME, size, g)
      e3 == XCall("walker", Option, e2.NewOffset, CB_TAG_CFR_VARCHAR_UI_HELPTEXT, size, g)
  IN [e0 |-> e0, e1 |-> e1, e2 |-> e2, e3 |-> e3]

HiiDefaultValue(dl, defconv) == IF dl > 1 THEN defconv.str ELSE STR_INVALID_STRING

HiiDefaultValueLengthChars(dl) == IF dl > 1 THEN dl ELSE Len(STR_INVALID_STRING) + 1

CharacterQuestion(Option, g, dl, defconv, disp, help) ==
  IF RecTag(Option, g) = CB_TAG_CFR_OPTION_VARCHAR
    THEN << [op |-> "EFI_IFR_STRING_OP",
             q |-> [QuestionId |-> CFR_COMPONENT_START + RecObjectId(Option, g),
                    VarStoreId |-> CFR_COMPONENT_START + RecObjectId(Option, g),
                    Prompt |-> disp.str, Help |-> help.str,
                    QuestionFlags |-> QuestionFlags(RecFlags(Option, g)),
                    Default |-> HiiDefaultValue(dl, defconv)],
             MinSize |-> HiiDefaultValueLengthChars(dl) - 1,
             MaxSize |-> HiiDefaultValueLengthChars(dl) - 1] >>
    ELSE IF RecTag(Option, g) = CB_TAG_CFR_OPTION_COMMENT
      THEN << [op |-> "EFI_IFR_TEXT_OP", Prompt |-> disp.str, Help |-> help.str] >>
      ELSE << >>

\* What the function has done, given its extractions f, the conversion of
\* the default, its storage (of a VARCHAR) and its two strings
CharacterOptionResult(Option, ProcessedLength, st, lk, g, f, dl, defconv, stored, disp, help, question) ==
  LET size == RecSize(Option, g)
      flags == RecFlags(Option, g)
      isVarchar == RecTag(Option, g) = CB_TAG_CFR_OPTION_VARCHAR
      all == IF isVarchar THEN << f.e0, f.e1, f.e2, f.e3 >> ELSE << f.e2, f.e3 >>
      base == [halt |-> FALSE, rejected |-> FALSE, ProcessedLength |-> ProcessedLength,
               calls |-> << >>, store |-> st, locked |-> lk, ops |-> << >>,
               wrote |-> FALSE, lockreq |-> FALSE, consumed |-> f.e3.NewOffset,
               missing |-> (isVarchar /\ (f.e0.ret = NULL \/ f.e1.ret = NULL))
                             \/ f.e2.ret = NULL,
               name |-> IF isVarchar THEN VbData(f.e1.ret, g) ELSE VbData(f.e2.ret, g),
               dl |-> dl, helpFound |-> f.e3.ret # NULL, spill |-> << >>]
  IN IF isVarchar /\ assertsOn /\ f.e0.ret = NULL
       THEN [base EXCEPT !.halt = TRUE, !.calls = << f.e0 >>]
     ELSE IF isVarchar /\ DefaultTooLong(dl)
       THEN [base EXCEPT !.rejected = TRUE, !.calls = << f.e0 >>,
                         !.ProcessedLength = ProcessedLength + size,
                         !.consumed = f.e0.NewOffset]
     ELSE IF isVarchar /\ assertsOn /\ f.e1.ret = NULL
       THEN [base EXCEPT !.halt = TRUE, !.calls = << f.e0, f.e1 >>]
     ELSE IF assertsOn /\ f.e2.ret = NULL
       THEN [base EXCEPT !.halt = TRUE,
                         !.calls = IF isVarchar THEN << f.e0, f.e1, f.e2 >> ELSE << f.e2 >>]
     ELSE IF assertsOn /\ isVarchar /\ dl > 1 /\ defconv.failed
       THEN [base EXCEPT !.halt = TRUE, !.calls = all]
     ELSE IF stored.halt
       THEN [base EXCEPT !.halt = TRUE, !.calls = all, !.spill = stored.spill,
                         !.store = stored.store, !.locked = stored.locked]
     ELSE IF assertsOn /\ (disp.failed \/ help.failed)
       THEN [base EXCEPT !.halt = TRUE, !.calls = all, !.spill = stored.spill,
                         !.store = stored.store, !.locked = stored.locked,
                         !.wrote = stored.wrote, !.lockreq = stored.lockreq,
                         !.ops = stored.ops \o FlagsOpen(flags)]
     ELSE [base EXCEPT !.halt = assertsOn /\ f.e3.NewOffset # size,
                       !.calls = all, !.spill = stored.spill,
                       !.store = stored.store, !.locked = stored.locked,
                       !.wrote = stored.wrote, !.lockreq = stored.lockreq,
                       !.ops = stored.ops \o FlagsOpen(flags) \o question \o FlagsClose(flags),
                       !.ProcessedLength =
                         IF assertsOn /\ f.e3.NewOffset # size
                           THEN ProcessedLength
                           ELSE ProcessedLength + AdvanceBy(size, f.e3.NewOffset)]

\* A variant in which an option without a variable still declares a varstore
NoStorageDeclared(st, lk) ==
  [halt |-> FALSE, store |-> st, locked |-> lk,
   ops |-> << [op |-> "EFI_IFR_VARSTORE_OP", VarStoreId |-> CFR_COMPONENT_START, Size |-> 0,
               Name |-> << >>] >>,
   wrote |-> FALSE, lockreq |-> FALSE, spill |-> << >>]

\* An option that is not a VARCHAR: the branches of lines 522 and 556 not
\* taken, CfrProduceStorageForOption not called
NoStorage(st, lk) ==
  [halt |-> FALSE, store |-> st, locked |-> lk, ops |-> << >>, wrote |-> FALSE,
   lockreq |-> FALSE, spill |-> << >>]

CharacterOptionStore(Option, ProcessedLength, st, lk, lockOk, g, f, dl, defconv, disp, help) ==
  CharacterOptionResult(Option, ProcessedLength, st, lk, g, f, dl, defconv,
    IF RecTag(Option, g) = CB_TAG_CFR_OPTION_VARCHAR
      THEN CfrProduceStorageForOption(f.e1.ret, HiiDefaultValue(dl, defconv),
                                      HiiDefaultValueLengthChars(dl) * 2, RecFlags(Option, g),
                                      CFR_COMPONENT_START + RecObjectId(Option, g),
                                      st, lk, lockOk, g)
      ELSE NoStorage(st, lk),
    disp, help, CharacterQuestion(Option, g, dl, defconv, disp, help))

CharacterOptionConvert(Option, ProcessedLength, st, lk, lockOk, g, f) ==
  CharacterOptionStore(Option, ProcessedLength, st, lk, lockOk, g, f,
                       VbDataLength(f.e0.ret, g),
                       CfrConvertVarBinaryToStrings(f.e0.ret, g),
                       CfrConvertVarBinaryToStrings(f.e2.ret, g),
                       HelpString(f.e3, g))

CfrProcessCharacterOption(Option, ProcessedLength, st, lk, lockOk, g) ==
  CharacterOptionConvert(Option, ProcessedLength, st, lk, lockOk, g, CharacterExtract(Option, g))

(***************************************************************************)
(* Bounds of the model.                                                    *)
(***************************************************************************)
\* Most iterations of one enum-value loop
MaxEnumValues == 3
\* Most entries of the walker's and of the resolver's log
MaxLog == 8
\* Most runs of the entry point
MaxPasses == 3

(***************************************************************************)
(* Initial state: the driver not yet started, no lookup in progress, an    *)
(* empty variable store, and the buffers of one of the test inputs.        *)
(***************************************************************************)
EmptyStore == [n \in {} |-> 0]

NoOpt == [Option |-> NULL]

\* A NULL name argument
NullName == << -1 >>

NoArgs ==
  [FormName |-> NullName, OptionName |-> NullName, haveData |-> FALSE, haveLength |-> FALSE]

\* *DefaultValueData and *DefaultValueLength as the caller left them
CallerData == [h |-> -1, a |-> 0]
CallerLength == -1

NoResult == [status |-> "none", data |-> CallerData, length |-> CallerLength, site |-> 0]

\* No lookup has run before the driver started
NoAlone == [recorded |-> FALSE, args |-> NoArgs, out |-> NoResult]

\* The inputs made of a tree and its twin, which differ in flags only
TwinInputs == {i \in 1..Len(Scenarios) : Scenarios[i] \in {TreesFlagsFirst, TreesFlagsSecond}}

\* The input whose variables may exist before the driver starts
StoredInputs == {i \in 1..Len(Scenarios) : Scenarios[i] = TreesFlagKinds}

\* The inputs of the lookups that run while the driver builds its menu
InterleavedInputs ==
  {i \in 1..Len(Scenarios) : Scenarios[i] \in {TreesNested, TreesSpillingName}}

GeneralInputs ==
  {i \in (1..Len(Scenarios)) \ (TwinInputs \cup StoredInputs) : Scenarios[i] # TreesSpillingName}

InitFrom(inputs, stores) ==
  /\ scn \in inputs
  /\ hobs = EncodeTrees(Scenarios[scn])
  /\ assertsOn \in BOOLEAN
  /\ mVariablePolicy = FALSE
  /\ pass = 0
  /\ store \in stores
  /\ locked = {}
  /\ wpc = "unloaded"
  /\ wHob = 0
  /\ wLen = 0
  /\ wOpt = NoOpt
  /\ ops = << >>
  /\ optOps = << >>
  /\ form = << >>
  /\ wlog = << >>
  /\ rpc = "idle"
  /\ rArgs = NoArgs
  /\ rHob = 0
  /\ rLen = 0
  /\ rOut = NoResult
  /\ rlog = << >>
  /\ rAlone = NoAlone
  /\ xcalls = << >>

InitOn(inputs) == InitFrom(inputs, {EmptyStore})

Init == InitOn(GeneralInputs)

(***************************************************************************)
(* The walker: CfrSetupMenuEntryPoint and CfrCreateRuntimeComponents.      *)
(***************************************************************************)
CfrFormHob(h) == Ptr(h, 0)

\* LocateProtocol, the protocol and package installation, and
\* CfrCreateRuntimeComponents up to GetFirstGuidHob
DriverEntry ==
  /\ wpc = "unloaded"
  /\ \E located \in BOOLEAN : mVariablePolicy' = located
  /\ pass' = pass + 1
  /\ wHob' = 1
  /\ wpc' = IF Len(hobs) = 0 THEN "submit" ELSE "hob"
  /\ wLen' = 0
  /\ ops' = << >>
  /\ xcalls' = << >>
  /\ UNCHANGED << hobs, scn, assertsOn, store, locked, wOpt, optOps, form, wlog >>
  /\ UNCHANGED resolverVars

\* The entry point run while no lookup is in progress
CfrSetupMenuEntryPoint == rpc = "idle" /\ DriverEntry

\* The root form of the next HOB
WalkRootForm ==
  /\ wpc = "hob"
  /\ \E g \in Garbage :
       \E r \in {CfrProcessFormOption(CfrFormHob(wHob), 0, g)} :
          /\ wpc' = IF r.halt THEN "halt" ELSE "loop"
          /\ wLen' = IF r.halt THEN 0 ELSE r.ProcessedLength
          /\ ops' = ops \o r.ops
          /\ wlog' = Append(wlog, r.ev @@ [root |-> TRUE, halted |-> r.halt,
                                             start |-> Len(ops) + 1, emitted |-> Len(r.ops)])
          /\ xcalls' = r.calls
  /\ UNCHANGED << hobs, scn, assertsOn, pass, mVariablePolicy, store, locked, wHob, wOpt, optOps, form >>
  /\ UNCHANGED resolverVars

\* while (ProcessedLength < CfrFormHob->size), and the tag switched on
InRootLoop(g) == wpc = "loop" /\ wLen < RecSize(CfrFormHob(wHob), g) /\ Len(wlog) < MaxLog

CfrFormData == Ptr(wHob, wLen)

WalkNestedForm ==
  /\ \E g \in Garbage :
       /\ InRootLoop(g)
       /\ RecTag(CfrFormData, g) = CB_TAG_CFR_OPTION_FORM
       /\ \E r \in {CfrProcessFormOption(CfrFormData, wLen, g)} :
             /\ wpc' = IF r.halt THEN "halt" ELSE "loop"
             /\ wLen' = IF r.halt THEN wLen ELSE r.ProcessedLength
             /\ ops' = ops \o r.ops
             /\ wlog' = Append(wlog, r.ev @@ [root |-> FALSE, halted |-> r.halt,
                                                start |-> Len(ops) + 1,
                                                emitted |-> Len(r.ops)])
             /\ xcalls' = r.calls
  /\ UNCHANGED << hobs, scn, assertsOn, pass, mVariablePolicy, store, locked, wHob, wOpt, optOps, form >>
  /\ UNCHANGED resolverVars

OptionEvent(loc, g, halted, consumed, after, start, emitted) ==
  [ev |-> "option", hob |-> loc.Option.h, off |-> loc.Option.a, tag |-> RecTag(loc.Option, g),
   size |-> RecSize(loc.Option, g), consumed |-> consumed, after |-> after,
   missing |-> loc.missing, name |-> loc.name, wrote |-> loc.wrote, lockreq |-> loc.lockreq,
   helpFound |-> loc.helpFound, rejected |-> FALSE, halted |-> halted, start |-> start,
   emitted |-> emitted, calls |-> loc.calls]

WalkNumericOption ==
  /\ \E g \in Garbage, lockOk \in BOOLEAN, past \in PastAllocation :
       /\ InRootLoop(g)
       /\ RecTag(CfrFormData, g)
            \in {CB_TAG_CFR_OPTION_ENUM, CB_TAG_CFR_OPTION_NUMBER, CB_TAG_CFR_OPTION_BOOL}
       /\ \E r \in {NumericOptionBegin(CfrFormData, store, locked, lockOk, g)} :
             /\ wpc' = IF r.halt THEN "halt" ELSE "numeric"
             /\ hobs' = Spilled(hobs, past, r.spill)
             /\ store' = r.store
             /\ locked' = r.locked
             /\ ops' = ops \o r.ops
             /\ wOpt' = r.loc @@ [start |-> Len(ops) + 1, calls |-> r.calls]
             /\ wlog' = IF r.halt
                          THEN Append(wlog, OptionEvent(r.loc @@ [calls |-> r.calls], g, TRUE,
                                                        r.loc.OptionProcessedLength, wLen,
                                                        Len(ops) + 1, Len(r.ops)))
                          ELSE wlog
             /\ xcalls' = r.calls
  /\ optOps' = << >>
  /\ UNCHANGED << scn, assertsOn, pass, mVariablePolicy, wHob, wLen, form >>
  /\ UNCHANGED resolverVars

InEnumLoop(g) ==
  /\ RecTag(wOpt.Option, g) = CB_TAG_CFR_OPTION_ENUM
  /\ wOpt.OptionProcessedLength < RecSize(wOpt.Option, g)

WalkEnumValue ==
  /\ wpc = "numeric"
  /\ Len(optOps) < MaxEnumValues
  /\ \E g \in Garbage :
       /\ InEnumLoop(g)
       /\ \E r \in {EnumValueStep(wOpt, g)} :
             /\ wpc' = IF r.halt THEN "halt" ELSE "numeric"
             /\ optOps' = IF r.halt THEN optOps ELSE Append(optOps, r.opt)
             /\ wOpt' = IF r.halt THEN wOpt
                        ELSE [wOpt EXCEPT !.OptionProcessedLength = r.OptionProcessedLength]
             /\ wlog' = IF r.halt
                          THEN Append(wlog, OptionEvent(wOpt, g, TRUE,
                                                        wOpt.OptionProcessedLength, wLen,
                                                        wOpt.start, Len(ops) - wOpt.start + 1))
                          ELSE wlog
  /\ xcalls' = << >>
  /\ UNCHANGED << hobs, scn, assertsOn, pass, mVariablePolicy, store, locked, wHob, wLen, ops, form >>
  /\ UNCHANGED resolverVars

WalkNumericFinish ==
  /\ wpc = "numeric"
  /\ \E g \in Garbage :
       /\ ~InEnumLoop(g)
       /\ LET size == RecSize(wOpt.Option, g)
              flags == RecFlags(wOpt.Option, g)
              halt == assertsOn /\ wOpt.OptionProcessedLength # size
              after == IF halt THEN wLen
                       ELSE wLen + AdvanceBy(size, wOpt.OptionProcessedLength)
              question == NumericQuestion(wOpt, RecTag(wOpt.Option, g), optOps)
                            \o FlagsClose(flags)
          IN /\ ops' = ops \o question
             /\ wpc' = IF halt THEN "halt" ELSE "loop"
             /\ wLen' = after
             /\ wlog' = Append(wlog, OptionEvent(wOpt, g, halt, wOpt.OptionProcessedLength,
                                                 after, wOpt.start,
                                                 Len(ops) + Len(question) - wOpt.start + 1))
  /\ optOps' = << >>
  /\ wOpt' = NoOpt
  /\ xcalls' = << >>
  /\ UNCHANGED << hobs, scn, assertsOn, pass, mVariablePolicy, store, locked, wHob, form >>
  /\ UNCHANGED resolverVars

WalkCharacterOption ==
  /\ \E g \in Garbage, lockOk \in BOOLEAN, past \in PastAllocation :
       /\ InRootLoop(g)
       /\ RecTag(CfrFormData, g) \in {CB_TAG_CFR_OPTION_VARCHAR, CB_TAG_CFR_OPTION_COMMENT}
       /\ \E r \in {CfrProcessCharacterOption(CfrFormData, wLen, store, locked, lockOk, g)} :
             /\ wpc' = IF r.halt THEN "halt" ELSE "loop"
             /\ hobs' = Spilled(hobs, past, r.spill)
             /\ wLen' = r.ProcessedLength
             /\ store' = r.store
             /\ locked' = r.locked
             /\ ops' = ops \o r.ops
             /\ wlog' = Append(wlog,
                          [ev |-> "option", hob |-> wHob, off |-> wLen,
                           tag |-> RecTag(CfrFormData, g), size |-> RecSize(CfrFormData, g),
                           consumed |-> r.consumed, after |-> r.ProcessedLength,
                           missing |-> r.missing, name |-> r.name, wrote |-> r.wrote,
                           lockreq |-> r.lockreq, helpFound |-> r.helpFound,
                           dl |-> r.dl, emitted |-> Len(r.ops),
                           rejected |-> r.rejected, halted |-> r.halt,
                           start |-> Len(ops) + 1, calls |-> r.calls])
             /\ xcalls' = r.calls
  /\ UNCHANGED << scn, assertsOn, pass, mVariablePolicy, wHob, wOpt, optOps, form >>
  /\ UNCHANGED resolverVars

IsOptionTag(tag) ==
  tag \in {CB_TAG_CFR_OPTION_FORM, CB_TAG_CFR_OPTION_ENUM, CB_TAG_CFR_OPTION_NUMBER,
           CB_TAG_CFR_OPTION_BOOL, CB_TAG_CFR_OPTION_VARCHAR, CB_TAG_CFR_OPTION_COMMENT}

\* A variant of the default case that steps over the two header words only
UnexpectedEntryHeaderOnly(ProcessedLength, size) == ProcessedLength + 8

\* ProcessedLength += CfrFormData->size (line 764)
UnexpectedEntry(ProcessedLength, size) == ProcessedLength + size

\* default: of the switch
WalkUnexpected ==
  /\ \E g \in Garbage :
       /\ InRootLoop(g)
       /\ ~IsOptionTag(RecTag(CfrFormData, g))
       /\ wLen' = UnexpectedEntry(wLen, RecSize(CfrFormData, g))
       /\ wlog' = Append(wlog, [ev |-> "unexpected", hob |-> wHob, off |-> wLen,
                                tag |-> RecTag(CfrFormData, g),
                                size |-> RecSize(CfrFormData, g),
                                after |-> UnexpectedEntry(wLen, RecSize(CfrFormData, g)),
                                halted |-> FALSE])
  /\ xcalls' = << >>
  /\ UNCHANGED << hobs, scn, assertsOn, pass, mVariablePolicy, store, locked, wpc, wHob, wOpt, ops,
                  optOps, form >>
  /\ UNCHANGED resolverVars

\* The root loop has ended: the closing subtitle, and GetNextGuidHob
WalkEndTree ==
  /\ wpc = "loop"
  /\ \E g \in Garbage :
       /\ wLen >= RecSize(CfrFormHob(wHob), g)
       /\ wlog' = Append(wlog, [ev |-> "end", hob |-> wHob, off |-> wLen,
                                size |-> RecSize(CfrFormHob(wHob), g), after |-> wLen,
                                halted |-> FALSE])
  /\ ops' = Append(ops, [op |-> "EFI_IFR_SUBTITLE_OP", Prompt |-> STR_EMPTY_STRING])
  /\ wHob' = wHob + 1
  /\ wpc' = IF wHob + 1 <= Len(hobs) THEN "hob" ELSE "submit"
  /\ xcalls' = << >>
  /\ UNCHANGED << hobs, scn, assertsOn, pass, mVariablePolicy, store, locked, wLen, wOpt, optOps, form >>
  /\ UNCHANGED resolverVars

\* HiiUpdateForm
WalkSubmit ==
  /\ wpc = "submit"
  /\ form' = ops
  /\ wpc' = "done"
  /\ xcalls' = << >>
  /\ UNCHANGED << hobs, scn, assertsOn, pass, mVariablePolicy, store, locked, wHob, wLen, wOpt, ops,
                  optOps, wlog >>
  /\ UNCHANGED resolverVars

NextWalk ==
  \/ CfrSetupMenuEntryPoint
  \/ WalkRootForm
  \/ WalkNestedForm
  \/ WalkNumericOption
  \/ WalkEnumValue
  \/ WalkNumericFinish
  \/ WalkCharacterOption
  \/ WalkUnexpected
  \/ WalkEndTree
  \/ WalkSubmit

SpecWalk == Init /\ [][NextWalk]_vars

(***************************************************************************)
(* The driver unloaded and started again in the same boot, and the value   *)
(* of a variable changed through the setup menu in between.                *)
(***************************************************************************)
\* CfrSetupMenuUnload: the protocols uninstalled, the HII packages removed
CfrSetupMenuUnload ==
  /\ wpc = "done"
  /\ rpc = "idle"
  /\ pass < MaxPasses
  /\ wpc' = "unloaded"
  /\ mVariablePolicy' = FALSE
  /\ wHob' = 0
  /\ wLen' = 0
  /\ ops' = << >>
  /\ form' = << >>
  /\ wlog' = << >>
  /\ xcalls' = << >>
  /\ UNCHANGED << hobs, scn, assertsOn, pass, store, locked, wOpt, optOps >>
  /\ UNCHANGED resolverVars

\* The value the user gives a numeric question
UserValue == 99

\* The form browser writes the value of a numeric question of the menu to
\* the question's variable
UserChangesValue ==
  /\ wpc = "done"
  /\ rpc = "idle"
  /\ \E n \in DOMAIN store :
       /\ \E i \in 1..Len(wlog) :
            /\ wlog[i].ev = "option"
            /\ wlog[i].tag \in {CB_TAG_CFR_OPTION_ENUM, CB_TAG_CFR_OPTION_NUMBER,
                                CB_TAG_CFR_OPTION_BOOL}
            /\ AsciiStrToUnicodeStrS(wlog[i].name, Len(wlog[i].name) + 1).str = n
       /\ \E set \in {SetVariable(store, locked, n, store[n].attr, 4, UserValue)} :
            /\ set.status = "EFI_SUCCESS"
            /\ store' = set.store
  /\ xcalls' = << >>
  /\ UNCHANGED << hobs, scn, assertsOn, pass, mVariablePolicy, locked, wpc, wHob, wLen, wOpt, ops,
                  optOps, form, wlog >>
  /\ UNCHANGED resolverVars

NextPasses ==
  \/ CfrSetupMenuEntryPoint
  \/ WalkRootForm
  \/ WalkNestedForm
  \/ WalkNumericOption
  \/ WalkEnumValue
  \/ WalkNumericFinish
  \/ WalkCharacterOption
  \/ WalkUnexpected
  \/ WalkEndTree
  \/ WalkSubmit
  \/ CfrSetupMenuUnload
  \/ UserChangesValue

SpecPasses == Init /\ [][NextPasses]_vars

(***************************************************************************)
(* The resolver: CfrOptionGetDefaultValue.  Boot services run one call at  *)
(* a time, so a lookup starts before the driver's entry point or after it  *)
(* has returned.                                                           *)
(***************************************************************************)
FormNames == {NullName, S_Main, S_Advanced}

OptionNames == {NullName, S_Foo, S_Bar, S_Baz, S_Sub, S_None}

\* GetNextGuidHob, and the return at the end of the function
NextHob(h) ==
  IF h + 1 <= Len(hobs)
    THEN [rpc |-> "hob", rOut |-> NoResult]
    ELSE [rpc |-> "done",
          rOut |-> [status |-> "EFI_NOT_FOUND", data |-> CallerData, length |-> CallerLength,
                    site |-> 169]]

\* A variant of the parameter check that tests the name only
ParametersInvalidNameOnly(OptionName, haveData) == OptionName = NullName

\* (OptionName == NULL) || (DefaultValueData == NULL) (line 77)
ParametersInvalid(OptionName, haveData) == OptionName = NullName \/ ~haveData

\* The call with these arguments, its parameter check and GetFirstGuidHob
GetDefaultBegin(args) ==
  /\ rArgs' = args
  /\ IF ParametersInvalid(args.OptionName, args.haveData)
       THEN /\ rpc' = "done"
            /\ rOut' = [status |-> "EFI_INVALID_PARAMETER", data |-> CallerData,
                        length |-> CallerLength, site |-> 78]
       ELSE /\ rpc' = NextHob(0).rpc
            /\ rOut' = NextHob(0).rOut
  /\ rHob' = 1
  /\ rLen' = 0
  /\ rlog' = << >>
  /\ xcalls' = << >>
  /\ UNCHANGED << hobs, scn, assertsOn, rAlone >>
  /\ UNCHANGED walkerVars

\* A call before the driver's entry point or after it has returned, with
\* names drawn from forms and names
GetDefaultCallWith(forms, names) ==
  /\ rpc = "idle"
  /\ wpc \in {"unloaded", "done"}
  /\ \E FormName \in forms, OptionName \in names, haveData, haveLength \in BOOLEAN :
       GetDefaultBegin([FormName |-> FormName, OptionName |-> OptionName,
                        haveData |-> haveData, haveLength |-> haveLength])

GetDefaultCall == GetDefaultCallWith(FormNames, OptionNames)

\* A variant of the filter that skips no tree
RootFormSkippedNever(FormName, CfrFormName) == FALSE

\* (FormName != NULL) && (AsciiStrCmp (FormName, CfrFormName->data) != 0)
\* (line 95)
RootFormSkipped(FormName, CfrFormName) ==
  FormName # NullName /\ AsciiStrCmp(FormName, CfrFormName) # 0

\* The root form of the next HOB, and the form-name filter
ResolveRootForm ==
  /\ rpc = "hob"
  /\ \E g \in Garbage :
       \E e \in {XCall("resolver", CfrFormHob(rHob), sizeof_CFR_OPTION_FORM,
                       CB_TAG_CFR_VARCHAR_UI_NAME, RecSize(CfrFormHob(rHob), g), g)} :
         \E halt \in {assertsOn /\ e.ret = NULL},
            skip \in {RootFormSkipped(rArgs.FormName, VbData(e.ret, g))} :
           /\ rpc' = IF halt THEN "halt" ELSE IF skip THEN NextHob(rHob).rpc ELSE "loop"
           /\ rOut' = IF ~halt /\ skip THEN NextHob(rHob).rOut ELSE rOut
           /\ rHob' = IF ~halt /\ skip THEN rHob + 1 ELSE rHob
           /\ rLen' = e.NewOffset
           /\ rlog' = Append(rlog, [ev |-> "form", root |-> TRUE, hob |-> rHob, off |-> 0,
                                    nameAt |-> e.Buffer.a + e.Offset, found |-> e.ret # NULL,
                                    name |-> VbData(e.ret, g), after |-> e.NewOffset,
                                    skipped |-> skip, halted |-> halt])
           /\ xcalls' = << e >>
  /\ UNCHANGED << hobs, scn, assertsOn, rAlone, rArgs >>
  /\ UNCHANGED walkerVars

\* while (ProcessedLength < CfrFormHob->size), and the tag switched on
InResolverLoop(g) ==
  rpc = "loop" /\ rLen < RecSize(CfrFormHob(rHob), g) /\ Len(rlog) < MaxLog

ResolverFormData == Ptr(rHob, rLen)

\* "Forms do not have default values"
FormHasNoDefault ==
  [status |-> "EFI_NOT_FOUND", data |-> CallerData, length |-> CallerLength, site |-> 115]

\* case CB_TAG_CFR_OPTION_FORM
ResolveNestedForm ==
  /\ \E g \in Garbage :
       /\ InResolverLoop(g)
       /\ RecTag(ResolverFormData, g) = CB_TAG_CFR_OPTION_FORM
       /\ \E e \in {XCall("resolver", CfrFormHob(rHob), rLen + sizeof_CFR_OPTION_FORM,
                          CB_TAG_CFR_VARCHAR_UI_NAME, rLen + RecSize(ResolverFormData, g), g)} :
            \E halt \in {assertsOn /\ e.ret = NULL},
               match \in {AsciiStrCmp(rArgs.OptionName, VbData(e.ret, g)) = 0} :
              /\ rpc' = IF halt THEN "halt" ELSE IF match THEN "done" ELSE "loop"
              /\ rOut' = IF ~halt /\ match THEN FormHasNoDefault ELSE rOut
              /\ rLen' = e.NewOffset
              /\ rlog' = Append(rlog, [ev |-> "form", root |-> FALSE, hob |-> rHob, off |-> rLen,
                                       nameAt |-> e.Buffer.a + e.Offset, found |-> e.ret # NULL,
                                       name |-> VbData(e.ret, g), after |-> e.NewOffset,
                                       skipped |-> FALSE, halted |-> halt])
              /\ xcalls' = << e >>
  /\ UNCHANGED << hobs, scn, assertsOn, rAlone, rArgs, rHob >>
  /\ UNCHANGED walkerVars

ResolverEvent(g, calls, consumed, name, matched, halted, after) ==
  [ev |-> "option", hob |-> rHob, off |-> rLen, tag |-> RecTag(ResolverFormData, g),
   size |-> RecSize(ResolverFormData, g), consumed |-> consumed, name |-> name,
   matched |-> matched, halted |-> halted, after |-> after, calls |-> calls]

\* case CB_TAG_CFR_OPTION_ENUM, NUMBER, BOOL
ResolveNumeric ==
  /\ \E g \in Garbage :
       /\ InResolverLoop(g)
       /\ RecTag(ResolverFormData, g)
            \in {CB_TAG_CFR_OPTION_ENUM, CB_TAG_CFR_OPTION_NUMBER, CB_TAG_CFR_OPTION_BOOL}
       /\ \E e \in {XCall("resolver", ResolverFormData, sizeof_CFR_OPTION_NUMERIC,
                          CB_TAG_CFR_VARCHAR_OPT_NAME, RecSize(ResolverFormData, g), g)} :
            \E halt \in {assertsOn /\ e.ret = NULL},
               match \in {AsciiStrCmp(rArgs.OptionName, VbData(e.ret, g)) = 0} :
              /\ rpc' = IF halt THEN "halt" ELSE IF match THEN "done" ELSE "loop"
              /\ rOut' = IF ~halt /\ match
                           THEN [status |-> "EFI_SUCCESS",
                                 data |-> PtrAdd(ResolverFormData, offsetof_default_value),
                                 length |-> IF rArgs.haveLength THEN 4 ELSE CallerLength,
                                 site |-> 130]
                           ELSE rOut
              /\ rLen' = IF halt \/ match THEN rLen ELSE rLen + RecSize(ResolverFormData, g)
              /\ rlog' = Append(rlog,
                           ResolverEvent(g, << e >>, e.NewOffset, VbData(e.ret, g), match, halt,
                                         IF halt \/ match
                                           THEN rLen ELSE rLen + RecSize(ResolverFormData, g)))
              /\ xcalls' = << e >>
  /\ UNCHANGED << hobs, scn, assertsOn, rAlone, rArgs, rHob >>
  /\ UNCHANGED walkerVars


\* The four extractions of case CB_TAG_CFR_OPTION_VARCHAR (lines 136-148)
ResolverVarcharExtract(Option, g) ==
  LET size == RecSize(Option, g)
      e1 == XCall("resolver", Option, sizeof_CFR_OPTION_VARCHAR, CB_TAG_CFR_VARCHAR_OPT_NAME,
                  size, g)
      e2 == XCall("resolver", Option, e1.NewOffset, CB_TAG_CFR_VARCHAR_UI_NAME, size, g)
      e3 == XCall("resolver", Option, e2.NewOffset, CB_TAG_CFR_VARCHAR_UI_HELPTEXT, size, g)
      e4 == XCall("resolver", Option, e3.NewOffset, CB_TAG_CFR_VARCHAR_DEF_VALUE, size, g)
  IN [e1 |-> e1, e2 |-> e2, e3 |-> e3, e4 |-> e4]

ResolverVarcharCalls(f) ==
  IF assertsOn /\ f.e1.ret = NULL THEN << f.e1 >>
  ELSE IF assertsOn /\ f.e2.ret = NULL THEN << f.e1, f.e2 >>
  ELSE << f.e1, f.e2, f.e3, f.e4 >>

\* case CB_TAG_CFR_OPTION_VARCHAR
ResolveVarchar ==
  /\ \E g \in Garbage :
       /\ InResolverLoop(g)
       /\ RecTag(ResolverFormData, g) = CB_TAG_CFR_OPTION_VARCHAR
       /\ \E f \in {ResolverVarcharExtract(ResolverFormData, g)} :
            \E halt \in {assertsOn /\ (f.e1.ret = NULL \/ f.e2.ret = NULL \/ f.e4.ret = NULL)},
               match \in {AsciiStrCmp(rArgs.OptionName, VbData(f.e1.ret, g)) = 0} :
              /\ rpc' = IF halt THEN "halt" ELSE IF match THEN "done" ELSE "loop"
              /\ rOut' = IF ~halt /\ match
                           THEN [status |-> "EFI_SUCCESS",
                                 data |-> PtrAdd(f.e4.ret, sizeof_CFR_VARBINARY),
                                 length |-> IF rArgs.haveLength
                                              THEN VbDataLength(f.e4.ret, g) ELSE CallerLength,
                                 site |-> 155]
                           ELSE rOut
              /\ rLen' = IF halt \/ match THEN rLen ELSE rLen + RecSize(ResolverFormData, g)
              /\ rlog' = Append(rlog,
                           ResolverEvent(g, ResolverVarcharCalls(f), f.e4.NewOffset,
                                         VbData(f.e1.ret, g), match, halt,
                                         IF halt \/ match
                                           THEN rLen ELSE rLen + RecSize(ResolverFormData, g)))
              /\ xcalls' = ResolverVarcharCalls(f)
  /\ UNCHANGED << hobs, scn, assertsOn, rAlone, rArgs, rHob >>
  /\ UNCHANGED walkerVars

\* case CB_TAG_CFR_OPTION_COMMENT and default
ResolveSkip ==
  /\ \E g \in Garbage :
       /\ InResolverLoop(g)
       /\ RecTag(ResolverFormData, g)
            \notin {CB_TAG_CFR_OPTION_FORM, CB_TAG_CFR_OPTION_ENUM, CB_TAG_CFR_OPTION_NUMBER,
                    CB_TAG_CFR_OPTION_BOOL, CB_TAG_CFR_OPTION_VARCHAR}
       /\ rLen' = rLen + RecSize(ResolverFormData, g)
       /\ rlog' = Append(rlog,
                    ResolverEvent(g, << >>, 0, << >>, FALSE, FALSE,
                                  rLen + RecSize(ResolverFormData, g)))
  /\ xcalls' = << >>
  /\ UNCHANGED << hobs, scn, assertsOn, rAlone, rpc, rArgs, rHob, rOut >>
  /\ UNCHANGED walkerVars

\* The tree has no more records: GetNextGuidHob, or the final return
ResolveEndTree ==
  /\ rpc = "loop"
  /\ \E g \in Garbage :
       /\ rLen >= RecSize(CfrFormHob(rHob), g)
       /\ rlog' = Append(rlog, [ev |-> "end", hob |-> rHob, off |-> rLen,
                                size |-> RecSize(CfrFormHob(rHob), g), halted |-> FALSE])
  /\ rpc' = NextHob(rHob).rpc
  /\ rOut' = NextHob(rHob).rOut
  /\ rHob' = rHob + 1
  /\ xcalls' = << >>
  /\ UNCHANGED << hobs, scn, assertsOn, rAlone, rArgs, rLen >>
  /\ UNCHANGED walkerVars

\* The caller has taken the result
GetDefaultReturn ==
  /\ rpc = "done"
  /\ rpc' = "idle"
  /\ rArgs' = NoArgs
  /\ rHob' = 0
  /\ rLen' = 0
  /\ rOut' = NoResult
  /\ rlog' = << >>
  /\ xcalls' = << >>
  /\ UNCHANGED << hobs, scn, assertsOn, rAlone >>
  /\ UNCHANGED walkerVars

NextFind ==
  \/ GetDefaultCall
  \/ ResolveRootForm
  \/ ResolveNestedForm
  \/ ResolveNumeric
  \/ ResolveVarchar
  \/ ResolveSkip
  \/ ResolveEndTree
  \/ GetDefaultReturn

SpecFind == Init /\ [][NextFind]_vars

Next ==
  \/ CfrSetupMenuEntryPoint
  \/ WalkRootForm
  \/ WalkNestedForm
  \/ WalkNumericOption
  \/ WalkEnumValue
  \/ WalkNumericFinish
  \/ WalkCharacterOption
  \/ WalkUnexpected
  \/ WalkEndTree
  \/ WalkSubmit
  \/ GetDefaultCall
  \/ ResolveRootForm
  \/ ResolveNestedForm
  \/ ResolveNumeric
  \/ ResolveVarchar
  \/ ResolveSkip
  \/ ResolveEndTree
  \/ GetDefaultReturn

Spec == Init /\ [][Next]_vars

(***************************************************************************)
(* The walker and the resolver on a tree and its twin.  The twins hold a   *)
(* form, an enum and a comment: the steps for other records have nothing   *)
(* to act on.                                                              *)
(***************************************************************************)
InitTwins == InitOn(TwinInputs)

NextTwins ==
  \/ CfrSetupMenuEntryPoint
  \/ WalkRootForm
  \/ WalkNumericOption
  \/ WalkEnumValue
  \/ WalkNumericFinish
  \/ WalkCharacterOption
  \/ WalkEndTree
  \/ WalkSubmit
  \/ GetDefaultCall
  \/ ResolveRootForm
  \/ ResolveNumeric
  \/ ResolveSkip
  \/ ResolveEndTree
  \/ GetDefaultReturn

SpecTwins == InitTwins /\ [][NextTwins]_vars


(***************************************************************************)
(* The driver started, unloaded and started again over a variable store    *)
(* that an earlier boot, or an earlier version of the firmware, left       *)
(* behind.                                                                 *)
(***************************************************************************)
StoredVariable(size, data) ==
  [attr |-> {"EFI_VARIABLE_BOOTSERVICE_ACCESS", "EFI_VARIABLE_NON_VOLATILE"},
   size |-> size, data |-> data]

\* No variable; "Foo" as the user left it; "Foo" two bytes long; "Baz" four
\* characters long
StoresBefore ==
  { EmptyStore,
    [n \in {AsciiStrToUnicodeStrS(S_Foo, 4).str} |-> StoredVariable(4, 99)],
    [n \in {AsciiStrToUnicodeStrS(S_Foo, 4).str} |-> StoredVariable(2, 99)],
    [n \in {AsciiStrToUnicodeStrS(S_Baz, 4).str} |->
       StoredVariable(8, AsciiStrToUnicodeStrS(S_Bar, 4).str)] }

InitStored == InitFrom(StoredInputs, StoresBefore)

NextStored ==
  \/ CfrSetupMenuEntryPoint
  \/ WalkRootForm
  \/ WalkNumericOption
  \/ WalkEnumValue
  \/ WalkNumericFinish
  \/ WalkCharacterOption
  \/ WalkEndTree
  \/ WalkSubmit
  \/ CfrSetupMenuUnload

SpecStored == InitStored /\ [][NextStored]_vars

(***************************************************************************)
(* Lookups by the names of root forms and of nested forms, over the trees  *)
(* that hold a nested form.                                                *)
(***************************************************************************)
NestedInputs == {i \in 1..Len(Scenarios) : Scenarios[i] \in {TreesNested, TreesFormNamedFoo}}

NestedFormNames == {NullName, S_Main, S_Advanced, S_Sub, S_Foo}

NestedOptionNames == {S_Foo, S_Bar, S_Main, S_Advanced, S_Sub}

GetDefaultCallOfForms == GetDefaultCallWith(NestedFormNames, NestedOptionNames)

InitNested == InitOn(NestedInputs)

NextNested ==
  \/ GetDefaultCallOfForms
  \/ ResolveRootForm
  \/ ResolveNestedForm
  \/ ResolveNumeric
  \/ ResolveSkip
  \/ ResolveEndTree
  \/ GetDefaultReturn

SpecNested == InitNested /\ [][NextNested]_vars

(***************************************************************************)
(* A lookup that runs before the driver starts, and the same lookup        *)
(* started again at any step of the driver's pass, as a notification       *)
(* function that interrupts the entry point can start it; and the entry    *)
(* point started while a lookup is in progress.                            *)
(***************************************************************************)
InterleavedFormNames == {NullName}

InterleavedOptionNames == {S_Bar, S_None}

GetDefaultCallAlone ==
  /\ pass = 0
  /\ ~rAlone.recorded
  /\ GetDefaultCallWith(InterleavedFormNames, InterleavedOptionNames)

\* The caller has taken the result of the lookup that ran alone
GetDefaultReturnAlone ==
  /\ rpc = "done"
  /\ pass = 0
  /\ ~rAlone.recorded
  /\ rAlone' = [recorded |-> TRUE, args |-> rArgs, out |-> rOut]
  /\ rpc' = "idle"
  /\ rArgs' = NoArgs
  /\ rHob' = 0
  /\ rLen' = 0
  /\ rOut' = NoResult
  /\ rlog' = << >>
  /\ xcalls' = << >>
  /\ UNCHANGED << hobs, scn, assertsOn >>
  /\ UNCHANGED walkerVars

\* The same call, wherever the driver is
GetDefaultCallAgain ==
  /\ rpc = "idle"
  /\ rAlone.recorded
  /\ wpc # "halt"
  /\ GetDefaultBegin(rAlone.args)

GetDefaultReturnAgain == rAlone.recorded /\ GetDefaultReturn

\* The entry point, wherever the lookup is
DriverEntryAnytime == rAlone.recorded /\ rpc # "halt" /\ DriverEntry

InitInterleaved == InitOn(InterleavedInputs)

NextInterleaved ==
  \/ GetDefaultCallAlone
  \/ GetDefaultReturnAlone
  \/ GetDefaultCallAgain
  \/ GetDefaultReturnAgain
  \/ DriverEntryAnytime
  \/ WalkRootForm
  \/ WalkNestedForm
  \/ WalkNumericOption
  \/ WalkEnumValue
  \/ WalkNumericFinish
  \/ WalkCharacterOption
  \/ WalkUnexpected
  \/ WalkEndTree
  \/ WalkSubmit
  \/ ResolveRootForm
  \/ ResolveNestedForm
  \/ ResolveNumeric
  \/ ResolveSkip
  \/ ResolveEndTree

SpecInterleaved == InitInterleaved /\ [][NextInterleaved]_vars

(***************************************************************************)
(* Properties.                                                             *)
(***************************************************************************)
\* The inputs in which every record's size is its fixed fields plus its
\* variable fields and children, fields in the order of the walker, and
\* every default within MAX_DEFAULT_LENGTH
WellFormed ==
  Scenarios[scn] \in {TreesMainAdvanced, TreesAllKinds, TreesNested, TreesFormNamedFoo,
                      TreesVarchar(3), TreesVarchar(MAX_DEFAULT_LENGTH), TreesEnums}

\* A word of the buffer, for a pointer whose word lies inside it
Word(p, off) == Rd32(p, off, [w |-> 0, s |-> << >>])

\* C1: a call of CfrExtractVarBinary whose tag does not match returns NULL
\* and leaves Offset as it was; one whose tag matches returns the record at
\* the old Offset and adds that record's size field to Offset; Offset never
\* decreases.
ExtractorContract ==
  \A i \in 1..Len(xcalls) :
    /\ xcalls[i].NewOffset >= xcalls[i].Offset
    /\ xcalls[i].ret = NULL => xcalls[i].NewOffset = xcalls[i].Offset
    /\ InBuffer(PtrAdd(xcalls[i].Buffer, xcalls[i].Offset), 8) =>
         IF Word(PtrAdd(xcalls[i].Buffer, xcalls[i].Offset), 0) # xcalls[i].TargetTag
           THEN xcalls[i].ret = NULL /\ xcalls[i].NewOffset = xcalls[i].Offset
           ELSE /\ xcalls[i].ret = PtrAdd(xcalls[i].Buffer, xcalls[i].Offset)
                /\ xcalls[i].NewOffset
                     = xcalls[i].Offset
                         + Word(PtrAdd(xcalls[i].Buffer, xcalls[i].Offset), offsetof_size)

\* One step made a call that did not match and a call that matched a
\* record whose size is not its header plus its data_length
ExtractorBothWays ==
  /\ \E i \in 1..Len(xcalls) : xcalls[i].ret = NULL
  /\ \E i \in 1..Len(xcalls) :
       /\ xcalls[i].ret # NULL
       /\ InBuffer(xcalls[i].ret, sizeof_CFR_VARBINARY)
       /\ Word(xcalls[i].ret, offsetof_size)
            # sizeof_CFR_VARBINARY + Word(xcalls[i].ret, offsetof_data_length)

\* C2: while a well-formed tree is decoded, every extractor call reads a
\* header that ends inside the record being decoded: Offset plus the
\* varbinary header length is at most that record's declared size.
ReadsInsideRecord ==
  WellFormed =>
    \A i \in 1..Len(xcalls) : xcalls[i].Offset + sizeof_CFR_VARBINARY <= xcalls[i].limit

\* C3: in a well-formed tree the walker consumes exactly the declared size
\* of every option, logs no unexpected entry and no rejection, and leaves
\* the root loop with the cursor equal to the root form's size.
WellFormedWalk ==
  WellFormed =>
    \A i \in 1..Len(wlog) :
      /\ wlog[i].ev # "unexpected"
      /\ wlog[i].ev = "option" => wlog[i].consumed = wlog[i].size /\ ~wlog[i].rejected
      /\ wlog[i].ev = "end" => wlog[i].off = wlog[i].size

\* C4: the walker reads the UI name of a nested form at offset k right
\* after the form's fixed header, at k + sizeof (CFR_OPTION_FORM), leaves
\* the cursor right after that name, and the resolver reads the name of the
\* same form at the same offset.
NestedFormNameOffset ==
  \A i \in 1..Len(wlog) :
    (wlog[i].ev = "form" /\ ~wlog[i].root) =>
      /\ wlog[i].nameAt = wlog[i].off + sizeof_CFR_OPTION_FORM
      /\ ~wlog[i].halted =>
           wlog[i].after
             = wlog[i].off + sizeof_CFR_OPTION_FORM
                 + Word(Ptr(wlog[i].hob, wlog[i].off + sizeof_CFR_OPTION_FORM), offsetof_size)
      /\ \A j \in 1..Len(rlog) :
           (rlog[j].ev = "form" /\ rlog[j].hob = wlog[i].hob /\ rlog[j].off = wlog[i].off) =>
             rlog[j].nameAt = wlog[i].nameAt

(***************************************************************************)
(* What the producer put in the trees, read off their descriptions.        *)
(***************************************************************************)
\* The string a varbinary's data holds
StrZ(data) ==
  SubSeq(data, 1, (CHOOSE j \in 1..Len(data) :
                     data[j] = 0 /\ \A k \in 1..(j - 1) : data[k] # 0) - 1)

\* The string of the first field with tag t, or NullName
FieldStr(fields, t) ==
  IF \E i \in 1..Len(fields) : fields[i].t = t
    THEN StrZ(fields[CHOOSE i \in 1..Len(fields) :
                       fields[i].t = t /\ \A k \in 1..(i - 1) : fields[k].t # t].data)
    ELSE NullName

NoRecord == [kind |-> "none", num |-> 0, str |-> << >>]

\* The first record named name, forms and options sharing one namespace,
\* in declaration order
RECURSIVE FirstNamed(_, _)
FirstNamed(items, name) ==
  IF items = << >>
    THEN NoRecord
  ELSE IF Head(items).k = "form"
    THEN IF FieldStr(Head(items).fields, CB_TAG_CFR_VARCHAR_UI_NAME) = name
           THEN [NoRecord EXCEPT !.kind = "form"]
           ELSE FirstNamed(Head(items).children \o Tail(items), name)
  ELSE IF Head(items).k = "num"
            /\ FieldStr(Head(items).fields, CB_TAG_CFR_VARCHAR_OPT_NAME) = name
    THEN [NoRecord EXCEPT !.kind = "num", !.num = Head(items).def]
  ELSE IF Head(items).k = "chr" /\ Head(items).tag = CB_TAG_CFR_OPTION_VARCHAR
            /\ FieldStr(Head(items).fields, CB_TAG_CFR_VARCHAR_OPT_NAME) = name
    THEN [NoRecord EXCEPT !.kind = "str",
                          !.str = FieldStr(Head(items).fields, CB_TAG_CFR_VARCHAR_DEF_VALUE)]
  ELSE FirstNamed(Tail(items), name)

\* The first record named OptionName in the trees, in enumeration order,
\* whose root form is named FormName (any tree, with no FormName)
RECURSIVE FirstInTrees(_, _, _)
FirstInTrees(trees, FormName, OptionName) ==
  IF trees = << >>
    THEN NoRecord
  ELSE IF FormName # NullName
            /\ FieldStr(Head(trees).fields, CB_TAG_CFR_VARCHAR_UI_NAME) # FormName
    THEN FirstInTrees(Tail(trees), FormName, OptionName)
  ELSE IF FirstNamed(Head(trees).children, OptionName).kind # "none"
    THEN FirstNamed(Head(trees).children, OptionName)
  ELSE FirstInTrees(Tail(trees), FormName, OptionName)

Expected == FirstInTrees(Scenarios[scn], rArgs.FormName, rArgs.OptionName)

\* C5: a lookup in well-formed trees returns the default of the first
\* option named OptionName of the first tree that has one, among the trees
\* whose root form is named FormName when a FormName is given: the 32-bit
\* default of a numeric option, the string of a VARCHAR option.
ResolverFindsFirst ==
  (WellFormed /\ rpc \in {"done", "halt"} /\ rArgs.haveData /\ rArgs.OptionName # NullName) =>
    /\ Expected.kind = "num" =>
         /\ rpc = "done"
         /\ rOut.status = "EFI_SUCCESS"
         /\ Word(rOut.data, 0) = Expected.num
    /\ Expected.kind = "str" =>
         /\ rpc = "done"
         /\ rOut.status = "EFI_SUCCESS"
         /\ InBuffer(rOut.data, 1)
         /\ CStr(rOut.data, 0, [w |-> 0, s |-> << >>]) = Expected.str

\* The example of C5: "Main" {Foo = 7} and "Advanced" {Foo = 3}
ResolverExample ==
  (Scenarios[scn] = TreesMainAdvanced /\ rpc \in {"done", "halt"}
     /\ rArgs.OptionName = S_Foo /\ rArgs.haveData) =>
    /\ rpc = "done"
    /\ rOut.status = "EFI_SUCCESS"
    /\ rArgs.FormName = S_Advanced => Word(rOut.data, 0) = 3
    /\ rArgs.FormName = NullName => Word(rOut.data, 0) = 7

\* What the caller sees of a return
Outcome(out) == [status |-> out.status, data |-> out.data, length |-> out.length]

\* C6: the return for an OptionName that is the name of a form differs, in
\* what the caller sees, from the return for a name no record has.
FormMatchDistinct ==
  (rpc = "done" /\ rOut.site = FormHasNoDefault.site) =>
    Outcome(rOut) # Outcome(NextHob(Len(hobs)).rOut)

\* C7: wherever the walker has decoded an option with every mandatory
\* field found and consumed == size, the resolver, decoding the same
\* record, finds every mandatory field it extracts.
SameTraversal ==
  \A i \in 1..Len(wlog), j \in 1..Len(rlog) :
    (/\ wlog[i].ev = "option" /\ rlog[j].ev = "option"
     /\ wlog[i].hob = rlog[j].hob /\ wlog[i].off = rlog[j].off
     /\ wlog[i].consumed = wlog[i].size
     /\ ~wlog[i].missing /\ ~wlog[i].halted /\ ~wlog[i].rejected) =>
      \A c \in 1..Len(rlog[j].calls) :
        rlog[j].calls[c].TargetTag # CB_TAG_CFR_VARCHAR_UI_HELPTEXT =>
          rlog[j].calls[c].ret # NULL

\* The children of the only tree of an input without nested forms, and
\* what the walker logs for the n-th of them when it is well-formed
Children == Scenarios[scn][1].children

OffsetOfChild(n) ==
  sizeof_CFR_OPTION_FORM + Len(EncFields(Scenarios[scn][1].fields))
    + Len(Flatten([m \in 1..(n - 1) |-> EncItem(Children[m])]))

ExpectedView(n) ==
  [off |-> OffsetOfChild(n),
   tag |-> Children[n].tag,
   size |-> Len(EncItem(Children[n])),
   consumed |-> Len(EncItem(Children[n])),
   name |-> IF Children[n].tag = CB_TAG_CFR_OPTION_COMMENT
              THEN FieldStr(Children[n].fields, CB_TAG_CFR_VARCHAR_UI_NAME)
              ELSE FieldStr(Children[n].fields, CB_TAG_CFR_VARCHAR_OPT_NAME),
   wrote |-> Children[n].tag # CB_TAG_CFR_OPTION_COMMENT,
   helpFound |-> \E f \in 1..Len(Children[n].fields) :
                   Children[n].fields[f].t = CB_TAG_CFR_VARCHAR_UI_HELPTEXT,
   emitted |-> IF Children[n].tag = CB_TAG_CFR_OPTION_COMMENT THEN 1 ELSE 2,
   missing |-> FALSE, rejected |-> FALSE, halted |-> FALSE,
   after |-> OffsetOfChild(n) + Len(EncItem(Children[n]))]

View(e) ==
  [off |-> e.off, tag |-> e.tag, size |-> e.size, consumed |-> e.consumed, name |-> e.name,
   wrote |-> e.wrote, helpFound |-> e.helpFound, emitted |-> e.emitted, missing |-> e.missing,
   rejected |-> e.rejected, halted |-> e.halted, after |-> e.after]

\* The entries that follow entry i are those of the well-formed siblings
SiblingsAsWellFormed(i) ==
  \A j \in (i + 1)..Len(wlog) :
    IF j - 1 <= Len(Children)
      THEN wlog[j].ev = "option" /\ View(wlog[j]) = ExpectedView(j - 1)
      ELSE wlog[j].ev = "end" /\ wlog[j].off = Len(hobs[1])

VarcharInputs ==
  Scenarios[scn] \in {TreesVarchar(3), TreesVarchar(MAX_DEFAULT_LENGTH),
                      TreesVarchar(MAX_DEFAULT_LENGTH + 1), TreesVarchar(300)}

\* C8: a VARCHAR option whose default value has data_length > 255 is
\* rejected: nothing is written to the variable store, no opcode is
\* emitted, the cursor advances by the option's declared size and the
\* siblings that follow are decoded as well-formed siblings are; a
\* data_length of 255 or less is not rejected.
OversizedDefaultRejected ==
  \A i \in 1..Len(wlog) :
    (/\ VarcharInputs
     /\ wlog[i].ev = "option" /\ wlog[i].tag = CB_TAG_CFR_OPTION_VARCHAR
     /\ wlog[i].calls[1].ret # NULL) =>
      IF wlog[i].dl > 255
        THEN /\ wlog[i].rejected /\ ~wlog[i].halted
             /\ ~wlog[i].wrote /\ ~wlog[i].lockreq /\ wlog[i].emitted = 0
             /\ wlog[i].after = wlog[i].off + wlog[i].size
             /\ (i = Len(wlog) /\ wpc = "loop") =>
                  (store = EmptyStore /\ Len(ops) = wlog[i].start - 1)
             /\ SiblingsAsWellFormed(i)
        ELSE /\ ~wlog[i].rejected
             /\ View(wlog[i]) = ExpectedView(i - 1)

\* The walker has rejected a default of 256 bytes and decoded the two
\* siblings behind it to the end of the tree
RejectedThenSiblings ==
  /\ Scenarios[scn] = TreesVarchar(MAX_DEFAULT_LENGTH + 1)
  /\ Len(wlog) = 5
  /\ wlog[2].rejected /\ wlog[2].dl = MAX_DEFAULT_LENGTH + 1
  /\ wlog[3].name = S_Foo /\ wlog[3].wrote
  /\ wlog[5].ev = "end"

\* The inputs of one tree without nested forms whose first option is
\* corrupted inside a valid outer size
CorruptedInputs ==
  Scenarios[scn] \in {TreesJunk, TreesSkew, TreesBadTag, TreesVarcharHeaderOrder}

\* C9: after an option whose consumed length differs from its declared
\* size the cursor is the option's start plus its declared size, and the
\* siblings that follow are decoded at the offsets and with the results of
\* well-formed siblings.
SiblingIsolation ==
  \A i \in 1..Len(wlog) :
    (CorruptedInputs /\ wlog[i].ev = "option" /\ wlog[i].consumed # wlog[i].size) =>
      /\ wlog[i].after = wlog[i].off + wlog[i].size
      /\ SiblingsAsWellFormed(i)

\* C10: an option whose consumed length differs from its declared size, or
\* one of whose mandatory fields is missing, gets no variable and no
\* opcode, and the walker goes on with the next sibling.
ViolationFatalToRecord ==
  \A i \in 1..Len(wlog) :
    (wlog[i].ev = "option" /\ (wlog[i].consumed # wlog[i].size \/ wlog[i].missing)) =>
      /\ ~wlog[i].wrote
      /\ wlog[i].emitted = 0
      /\ ~wlog[i].halted
      /\ wlog[i].after = wlog[i].off + wlog[i].size

\* C11: the walker's step over a child whose tag is none of FORM, ENUM,
\* NUMBER, BOOL, VARCHAR, COMMENT logs the entry, adds the record's declared
\* size to the cursor, leaves the variable store, the locks and the opcodes
\* as they were, and stays in the root loop; the resolver's step over such
\* a record, and over a COMMENT, adds the declared size to its cursor,
\* extracts no field, and leaves the result as it was.
UnknownTagSkipped ==
  [][/\ (Len(wlog') = Len(wlog) + 1 /\ wlog'[Len(wlog')].ev = "unexpected") =>
          /\ ~IsOptionTag(wlog'[Len(wlog')].tag)
          /\ wlog'[Len(wlog')].off = wLen
          /\ InBuffer(Ptr(wHob, wLen), 8) =>
               /\ wlog'[Len(wlog')].tag = Word(Ptr(wHob, wLen), 0)
               /\ wlog'[Len(wlog')].size = Word(Ptr(wHob, wLen), offsetof_size)
          /\ wLen' = wLen + wlog'[Len(wlog')].size
          /\ wpc' = "loop" /\ wHob' = wHob
          /\ store' = store /\ locked' = locked
          /\ ops' = ops /\ optOps' = optOps /\ form' = form
     /\ (/\ Len(rlog') = Len(rlog) + 1
         /\ rlog'[Len(rlog')].ev = "option"
         /\ rlog'[Len(rlog')].tag
              \notin {CB_TAG_CFR_OPTION_ENUM, CB_TAG_CFR_OPTION_NUMBER, CB_TAG_CFR_OPTION_BOOL,
                      CB_TAG_CFR_OPTION_VARCHAR}) =>
          /\ rlog'[Len(rlog')].off = rLen
          /\ InBuffer(Ptr(rHob, rLen), 8) =>
               /\ rlog'[Len(rlog')].tag = Word(Ptr(rHob, rLen), 0)
               /\ rlog'[Len(rlog')].size = Word(Ptr(rHob, rLen), offsetof_size)
          /\ rLen' = rLen + rlog'[Len(rlog')].size
          /\ rlog'[Len(rlog')].calls = << >> /\ xcalls' = << >>
          /\ rpc' = "loop" /\ rHob' = rHob /\ rOut' = rOut
    ]_vars

\* The walker has logged the record of tag 99 and decoded the option behind
\* it, and a lookup has stepped over that record and over the COMMENT
UnknownThenSibling ==
  /\ Scenarios[scn] = TreesUnknown
  /\ wpc = "done"
  /\ \E i \in 1..(Len(wlog) - 1) :
       /\ wlog[i].ev = "unexpected" /\ wlog[i].tag = 99 /\ wlog[i].after = wlog[i].off + 16
       /\ wlog[i + 1].ev = "option" /\ wlog[i + 1].name = S_Foo /\ wlog[i + 1].wrote
       /\ wlog[i + 1].off = wlog[i].after
  /\ \E j \in 1..Len(rlog) : rlog[j].ev = "option" /\ rlog[j].tag = 99
  /\ \E j \in 1..Len(rlog) : rlog[j].ev = "option" /\ rlog[j].tag = CB_TAG_CFR_OPTION_COMMENT

(***************************************************************************)
(* Where the producer put each record, read off the descriptions.          *)
(***************************************************************************)
\* The records of items, the first of them at offset off of its buffer
RECURSIVE RecordsAt(_, _)
RecordsAt(items, off) ==
  IF items = << >>
    THEN {}
    ELSE (IF Head(items).k = "form"
            THEN RecordsAt(Head(items).children,
                           off + sizeof_CFR_OPTION_FORM + Len(EncFields(Head(items).fields)))
            ELSE {})
           \cup {[off |-> off, item |-> Head(items)]}
           \cup RecordsAt(Tail(items), off + Len(EncItem(Head(items))))

\* The records of buffer h
RecordsOf(h) == RecordsAt(<< Scenarios[scn][h] >>, 0)

\* The one-of choices of the enum values of a description
ExpectedChoices(item) ==
  [j \in 1..Len(item.vals) |->
     [op |-> "EFI_IFR_ONE_OF_OPTION_OP",
      Text |-> [c \in 1..Len(item.vals[j].label) |-> [c16 |-> item.vals[j].label[c]]],
      Value |-> item.vals[j].value]]

\* The question opcode the walker emitted for log entry e
QuestionOf(e, flags) == ops[e.start + e.emitted - 1 - Len(FlagsClose(flags))]

\* C12: for an ENUM option of a well-formed tree the walker emits one
\* one-of choice per enum-value record, in declaration order, each with the
\* record's value and label, and has consumed exactly the option's declared
\* size when its loop ends; a NUMBER or BOOL option gets no choice.
EnumExhaustive ==
  WellFormed =>
    \A i \in 1..Len(wlog) :
      wlog[i].ev = "option" =>
        \A r \in RecordsOf(wlog[i].hob) :
          (/\ r.off = wlog[i].off /\ r.item.k = "num"
           /\ r.item.tag # CB_TAG_CFR_OPTION_ENUM => ~wlog[i].halted) =>
            /\ ~wlog[i].halted
            /\ QuestionOf(wlog[i], r.item.flags).Options
                 = IF r.item.tag = CB_TAG_CFR_OPTION_ENUM THEN ExpectedChoices(r.item) ELSE << >>
            /\ QuestionOf(wlog[i], r.item.flags).op
                 = IF r.item.tag = CB_TAG_CFR_OPTION_ENUM THEN "EFI_IFR_ONE_OF_OP"
                   ELSE IF r.item.tag = CB_TAG_CFR_OPTION_NUMBER THEN "EFI_IFR_NUMERIC_OP"
                   ELSE "EFI_IFR_CHECKBOX_OP"
            /\ r.item.tag = CB_TAG_CFR_OPTION_ENUM => wlog[i].consumed = wlog[i].size

\* The walker has decoded the enum of three values, the enum of none, the
\* number and the checkbox
EnumsDecoded ==
  /\ Scenarios[scn] = TreesEnums
  /\ wpc = "done"
  /\ Len(wlog) = 6
  /\ Len(QuestionOf(wlog[2], 0).Options) = 3
  /\ QuestionOf(wlog[2], 0).Options[3].Value = 7
  /\ QuestionOf(wlog[3], 0).op = "EFI_IFR_ONE_OF_OP"
  /\ QuestionOf(wlog[3], 0).Options = << >>
  /\ QuestionOf(wlog[5], 0).op = "EFI_IFR_CHECKBOX_OP"

\* The name of the variable of the option named s
VariableName(s) == AsciiStrToUnicodeStrS(s, Len(s) + 1).str

\* C13: no step of the walker removes or changes a variable that exists,
\* whatever its value or size; and in a second or later run over the same
\* well-formed trees no step of the walker changes the variable store at
\* all.
StorageIdempotent ==
  [][wpc \notin {"unloaded", "done"} =>
       /\ \A n \in DOMAIN store : n \in DOMAIN store' /\ store'[n] = store[n]
       /\ (pass >= 2 /\ WellFormed) => store' = store
    ]_vars

\* A second run has ended that found the variable of option "Foo" holding
\* the value the user gave it
UserValueKept ==
  /\ pass = 2
  /\ wpc = "done"
  /\ VariableName(S_Foo) \in DOMAIN store
  /\ store[VariableName(S_Foo)].data = UserValue
  /\ \E i \in 1..Len(wlog) :
       wlog[i].ev = "option" /\ wlog[i].name = S_Foo /\ ~wlog[i].wrote /\ ~wlog[i].halted

(***************************************************************************)
(* Termination of the loops.                                               *)
(***************************************************************************)
\* C14: every iteration of the walker's root child loop, of its enum-value
\* loop and of the resolver's root child loop that stays in the loop leaves
\* the loop's cursor strictly greater than it found it, whatever the record
\* at the cursor declares as its size.
EveryIterationAdvances ==
  [][/\ (wpc \in {"loop", "numeric"} /\ wpc' = "loop" /\ wlog' # wlog) => wLen' > wLen
     /\ (wpc = "numeric" /\ wpc' = "numeric")
          => wOpt'.OptionProcessedLength > wOpt.OptionProcessedLength
     /\ (rpc = "loop" /\ rpc' = "loop" /\ rlog' # rlog) => rLen' > rLen
    ]_vars

SuccessPointsIntoBuffer ==
  (rpc = "done" /\ rOut.status = "EFI_SUCCESS") =>
    LET e == rlog[Len(rlog)]
        field == PtrAdd(rOut.data, 0 - sizeof_CFR_VARBINARY)
    IN /\ e.ev = "option" /\ e.matched
       /\ ~rArgs.haveLength => rOut.length = CallerLength
       /\ e.tag # CB_TAG_CFR_OPTION_VARCHAR =>
            /\ rOut.data = Ptr(e.hob, e.off + offsetof_default_value)
            /\ InBuffer(rOut.data, 4)
            /\ rArgs.haveLength => rOut.length = 4
       /\ e.tag = CB_TAG_CFR_OPTION_VARCHAR =>
            /\ rOut.data.h = e.hob
            /\ field.a >= e.off + sizeof_CFR_OPTION_VARCHAR
            /\ rOut.data.a < e.off + e.size
            /\ InBuffer(rOut.data, 1)
            /\ Word(field, 0) = CB_TAG_CFR_VARCHAR_DEF_VALUE
            /\ rArgs.haveLength => rOut.length = Word(field, offsetof_data_length)

(***************************************************************************)
(* A lookup of a name no record has.                                       *)
(***************************************************************************)
\* C17: when no tree searched has a record named OptionName (no tree at
\* all, no tree whose root form is named FormName, or none with the name)
\* the lookup of well-formed trees returns EFI_NOT_FOUND and leaves
\* *DefaultValueData and *DefaultValueLength as the caller set them.
AbsentNameNotFound ==
  (WellFormed /\ rpc \in {"done", "halt"} /\ rArgs.haveData /\ rArgs.OptionName # NullName
     /\ Expected.kind = "none") =>
    /\ rpc = "done"
    /\ rOut.status = "EFI_NOT_FOUND"
    /\ rOut.data = CallerData
    /\ rOut.length = CallerLength

(***************************************************************************)
(* The parameter check of the lookup.                                      *)
(***************************************************************************)
\* C18: a call with a NULL OptionName or a NULL DefaultValueData returns
\* EFI_INVALID_PARAMETER before any tree is enumerated and writes no
\* output; no other call returns that status, whether or not FormName and
\* DefaultValueLength are NULL.
InvalidParameterRejected ==
  rpc # "idle" =>
    IF rArgs.OptionName = NullName \/ ~rArgs.haveData
      THEN /\ rpc = "done"
           /\ rOut.status = "EFI_INVALID_PARAMETER"
           /\ rOut.data = CallerData
           /\ rOut.length = CallerLength
           /\ rlog = << >>
           /\ xcalls = << >>
      ELSE rOut.status # "EFI_INVALID_PARAMETER"

\* A call without DefaultValueData, for a name the trees have, has been
\* rejected
LookupWithoutDataRejected ==
  /\ rpc = "done"
  /\ rOut.status = "EFI_INVALID_PARAMETER"
  /\ ~rArgs.haveData
  /\ rArgs.OptionName = S_Foo
  /\ rArgs.FormName = NullName
  /\ Expected.kind = "num"

(***************************************************************************)
(* Flags and parsing: two trees that differ in their flags fields only,    *)
(* walked and searched one after the other.                                *)
(***************************************************************************)
OnFirst(e) == e.hob = 1

OnSecond(e) == e.hob = 2

\* An extraction, without the buffer it was made in
CallsView(calls) ==
  [k \in 1..Len(calls) |->
     << calls[k].Buffer.a, calls[k].Offset, calls[k].TargetTag, calls[k].ret = NULL,
        calls[k].ret.a, calls[k].NewOffset >>]

\* What a step of the walker decoded: the offset visited, the fields
\* extracted and the cursor it left
WalkView(e) ==
  IF e.ev = "form"
    THEN << e.ev, e.off, e.nameAt, e.found, e.name, e.after, e.halted >>
  ELSE IF e.ev = "option"
    THEN << e.ev, e.off, e.tag, e.size, e.consumed, e.after, e.missing, e.name, e.helpFound,
            e.rejected, e.halted, CallsView(e.calls) >>
  ELSE << e.ev, e.off, e.size, e.after, e.halted >>

\* The same of a step of the resolver
FindView(e) ==
  IF e.ev = "form"
    THEN << e.ev, e.off, e.nameAt, e.found, e.name, e.after, e.skipped, e.halted >>
  ELSE IF e.ev = "option"
    THEN << e.ev, e.off, e.tag, e.size, e.consumed, e.name, e.matched, e.halted, e.after,
            CallsView(e.calls) >>
  ELSE << e.ev, e.off, e.size, e.halted >>

IsFlagOp(o) ==
  o.op \in {"EFI_IFR_SUPPRESS_IF_OP", "EFI_IFR_GRAY_OUT_IF_OP", "EFI_IFR_TRUE_OP",
            "EFI_IFR_END_OP"}

IsContentOp(o) == ~IsFlagOp(o)

WithoutQuestionFlags(o) ==
  IF "q" \in DOMAIN o THEN [o EXCEPT !.q = [@ EXCEPT !.QuestionFlags = {}]] ELSE o

\* The opcodes that are not the if/true/end of a flag, question flags erased
Content(opcodes) ==
  LET c == SelectSeq(opcodes, IsContentOp)
  IN [i \in 1..Len(c) |-> WithoutQuestionFlags(c[i])]

FlagsAt(e) == Word(Ptr(e.hob, e.off), offsetof_flags)

IfScopesOf(e) ==
  IF e.ev \in {"form", "option"}
    THEN (IF HasFlag(FlagsAt(e), CFR_OPTFLAG_SUPPRESS) THEN 1 ELSE 0)
           + (IF HasFlag(FlagsAt(e), CFR_OPTFLAG_GRAYOUT) THEN 1 ELSE 0)
    ELSE 0

\* How many suppress-if and gray-out-if scopes the records of a log ask for
RECURSIVE IfScopes(_, _)
IfScopes(log, i) == IF i = 0 THEN 0 ELSE IfScopes(log, i - 1) + IfScopesOf(log[i])

IsTwins == Scenarios[scn] \in {TreesFlagsFirst, TreesFlagsSecond}

\* C19: of two trees that differ in flags only, the walker and the resolver
\* visit the same offsets, extract the same fields and leave the same
\* cursors, and a lookup finds in the first tree what it would find in the
\* second.  The flags show in nothing but the if/true/end opcodes of
\* suppress and gray-out (three per flag set), the read-only question flag
\* and the attributes of the variables written.
FlagsDoNotSteer ==
  IsTwins =>
    LET w1 == SelectSeq(wlog, OnFirst)
        w2 == SelectSeq(wlog, OnSecond)
        r1 == SelectSeq(rlog, OnFirst)
        r2 == SelectSeq(rlog, OnSecond)
        content == Content(form)
        half == Len(content) \div 2
    IN /\ Len(w2) <= Len(w1)
       /\ \A i \in 1..Len(w2) : WalkView(w1[i]) = WalkView(w2[i])
       /\ \A i \in 1..Len(wlog) : ~wlog[i].halted
       /\ wpc = "done" =>
            /\ Len(w1) = Len(w2)
            /\ Len(content) = 2 * half
            /\ SubSeq(content, 1, half) = SubSeq(content, half + 1, 2 * half)
            /\ Len(form) = Len(content) + 3 * IfScopes(wlog, Len(wlog))
            /\ Cardinality({i \in 1..Len(form) :
                              /\ "q" \in DOMAIN form[i]
                              /\ "EFI_IFR_FLAG_READ_ONLY" \in form[i].q.QuestionFlags})
                 = Cardinality({i \in 1..Len(wlog) :
                                  /\ wlog[i].ev = "option"
                                  /\ wlog[i].tag # CB_TAG_CFR_OPTION_COMMENT
                                  /\ HasFlag(FlagsAt(wlog[i]), CFR_OPTFLAG_READONLY)})
            /\ \A i \in 1..Len(wlog) :
                 (wlog[i].ev = "option" /\ wlog[i].wrote) =>
                   ("EFI_VARIABLE_NON_VOLATILE" \in store[VariableName(wlog[i].name)].attr
                      <=> ~HasFlag(FlagsAt(wlog[i]), CFR_OPTFLAG_VOLATILE))
       /\ Len(r2) <= Len(r1)
       /\ \A i \in 1..Len(r2) : FindView(r1[i]) = FindView(r2[i])
       /\ rpc # "halt"
       /\ (rpc = "done" /\ rOut.status = "EFI_NOT_FOUND" /\ rOut.site # FormHasNoDefault.site
             /\ rArgs.FormName \in {NullName, S_Main}) =>
            Len(r1) = Len(r2)
       /\ (rpc = "done" /\ rOut.status = "EFI_SUCCESS") =>
            /\ rOut.data.h = 1
            /\ InBuffer(rOut.data, 4)
            /\ Word(rOut.data, 0) = Word(Ptr(2, rOut.data.a), 0)

\* The flagged tree walked after its twin, and a lookup in the pair answered
\* from the flagged tree in front of its twin
TwinsWalkedAndSearched ==
  /\ Scenarios[scn] = TreesFlagsFirst
  /\ wpc = "done"
  /\ Len(SelectSeq(wlog, OnSecond)) = 4
  /\ rpc = "done"
  /\ rOut.status = "EFI_SUCCESS"
  /\ rArgs.OptionName = S_Bar

(***************************************************************************)
(* The policy lock.                                                        *)
(***************************************************************************)
\* The opcodes of a tree of the twin inputs, from its description
OpcodesOfTwin(t) ==
  LET e == t.children[1]
      c == t.children[2]
      q == [QuestionId |-> CFR_COMPONENT_START + e.id,
            VarStoreId |-> CFR_COMPONENT_START + e.id,
            Prompt |-> VariableName(S_Bar), Help |-> VariableName(S_Help),
            QuestionFlags |->
              {"EFI_IFR_FLAG_RESET_REQUIRED"}
                \cup (IF HasFlag(e.flags, CFR_OPTFLAG_READONLY)
                        THEN {"EFI_IFR_FLAG_READ_ONLY"} ELSE {}),
            Default |-> e.def]
  IN FlagsOpen(t.flags)
       \o << [op |-> "EFI_IFR_SUBTITLE_OP", Prompt |-> VariableName(S_Main)] >>
       \o FlagsClose(t.flags)
       \o << [op |-> "EFI_IFR_VARSTORE_OP", VarStoreId |-> CFR_COMPONENT_START + e.id,
              Size |-> 4, Name |-> S_Bar] >>
       \o FlagsOpen(e.flags)
       \o << [op |-> "EFI_IFR_ONE_OF_OP", q |-> q,
              Options |-> << [op |-> "EFI_IFR_ONE_OF_OPTION_OP", Text |-> VariableName(S_On),
                              Value |-> e.vals[1].value] >>] >>
       \o FlagsClose(e.flags)
       \o FlagsOpen(c.flags)
       \o << [op |-> "EFI_IFR_TEXT_OP", Prompt |-> VariableName(S_Txt),
              Help |-> VariableName(S_Help)] >>
       \o FlagsClose(c.flags)
       \o << [op |-> "EFI_IFR_SUBTITLE_OP", Prompt |-> STR_EMPTY_STRING] >>

\* The variable the walk of the twin inputs creates: the enum of the first
\* tree, with that tree's attributes
StoreOfTwins ==
  LET e == Scenarios[scn][1].children[1]
  IN [n \in {VariableName(S_Bar)} |->
        [attr |-> {"EFI_VARIABLE_BOOTSERVICE_ACCESS"}
                    \cup (IF HasFlag(e.flags, CFR_OPTFLAG_VOLATILE)
                            THEN {} ELSE {"EFI_VARIABLE_NON_VOLATILE"}),
         size |-> 4, data |-> e.def]]

\* C20: a lock is requested for an option exactly when the option is
\* READONLY and the variable-policy service was located; with the service
\* absent or the request failing no step halts, and the variables and the
\* opcodes at the end of the walk are those the trees describe, whatever
\* became of the locks.
LockIsBestEffort ==
  IsTwins =>
    /\ wpc # "halt"
    /\ \A i \in 1..Len(wlog) :
         wlog[i].ev = "option" =>
           (wlog[i].lockreq <=>
              /\ wlog[i].tag # CB_TAG_CFR_OPTION_COMMENT
              /\ HasFlag(FlagsAt(wlog[i]), CFR_OPTFLAG_READONLY)
              /\ mVariablePolicy)
    /\ locked \subseteq {VariableName(S_Bar)}
    /\ locked # {} => mVariablePolicy
    /\ wpc = "done" =>
         /\ store = StoreOfTwins
         /\ form = OpcodesOfTwin(Scenarios[scn][1]) \o OpcodesOfTwin(Scenarios[scn][2])

\* The walk has ended with the service located, the lock of the read-only
\* enum requested and refused
LockRefusedWalkDone ==
  /\ IsTwins
  /\ wpc = "done"
  /\ mVariablePolicy
  /\ locked = {}
  /\ \E i \in 1..Len(wlog) : wlog[i].ev = "option" /\ wlog[i].lockreq

(***************************************************************************)
(* The fields of a numeric option.                                         *)
(***************************************************************************)
IsNumericTag(tag) ==
  tag \in {CB_TAG_CFR_OPTION_ENUM, CB_TAG_CFR_OPTION_NUMBER, CB_TAG_CFR_OPTION_BOOL}

Element(o) ==
  [op |-> o.op,
   key |-> IF o.op = "EFI_IFR_VARSTORE_OP" THEN VariableName(o.Name)
           ELSE IF o.op = "EFI_IFR_TEXT_OP" THEN o.Prompt
           ELSE IF o.op = "EFI_IFR_SUBTITLE_OP" THEN << >>
           ELSE o.q.Prompt]

Elements(opcodes) == [i \in 1..Len(opcodes) |-> Element(opcodes[i])]

\* The elements of the descriptions items in pre-order: a form's subtitle
\* in front of its children's, an option's varstore in front of its question
RECURSIVE ElementsOfItems(_)
ElementsOfItems(items) ==
  IF items = << >>
    THEN << >>
    ELSE LET i == Head(items)
             ui == VariableName(FieldStr(i.fields, CB_TAG_CFR_VARCHAR_UI_NAME))
             var == [op |-> "EFI_IFR_VARSTORE_OP",
                     key |-> VariableName(FieldStr(i.fields, CB_TAG_CFR_VARCHAR_OPT_NAME))]
         IN (CASE i.k = "form" ->
                    << [op |-> "EFI_IFR_SUBTITLE_OP", key |-> << >>] >>
                      \o ElementsOfItems(i.children)
               [] i.k = "num" ->
                    << var,
                       [op |-> IF i.tag = CB_TAG_CFR_OPTION_ENUM THEN "EFI_IFR_ONE_OF_OP"
                               ELSE IF i.tag = CB_TAG_CFR_OPTION_NUMBER THEN "EFI_IFR_NUMERIC_OP"
                               ELSE "EFI_IFR_CHECKBOX_OP",
                        key |-> ui] >>
               [] i.k = "chr" ->
                    IF i.tag = CB_TAG_CFR_OPTION_VARCHAR
                      THEN << var, [op |-> "EFI_IFR_STRING_OP", key |-> ui] >>
                      ELSE << [op |-> "EFI_IFR_TEXT_OP", key |-> ui] >>
               [] i.k = "other" -> << >>)
              \o ElementsOfItems(Tail(items))

\* The elements of the trees in enumeration order, an empty subtitle behind
\* each tree
ElementsOfTrees(trees) ==
  Flatten([t \in 1..Len(trees) |->
             ElementsOfItems(<< trees[t] >>)
               \o << [op |-> "EFI_IFR_SUBTITLE_OP", key |-> << >>] >>])

\* C24: over well-formed trees the walker never stops short of the end of
\* the walk, what it has emitted at any step is the beginning of the
\* pre-order list of the trees' elements (a subtitle per form in front of
\* its children's elements, nested forms in the same flat list, options in
\* declaration order, one subtitle behind each tree, trees in enumeration
\* order), and what it submits is the whole list; with no tree it submits
\* an empty list.
PreOrderEmission ==
  (WellFormed \/ Len(hobs) = 0) =>
    /\ wpc # "halt"
    /\ Len(ops) <= Len(ElementsOfTrees(Scenarios[scn]))
    /\ wpc # "numeric" =>
         Elements(Content(ops)) = SubSeq(ElementsOfTrees(Scenarios[scn]), 1, Len(ops))
    /\ wpc = "done" => Elements(Content(form)) = ElementsOfTrees(Scenarios[scn])

(***************************************************************************)
(* Variables found in the store.                                           *)
(***************************************************************************)
\* The size the walker gives the variable of the option of log entry e
\* (lines 353 and 571)
SizeExpected(e) == IF e.tag = CB_TAG_CFR_OPTION_VARCHAR THEN 2 * e.dl ELSE 4

\* C22: an option whose variable exists with a size other than the size
\* the option expects (4 bytes for ENUM, NUMBER and BOOL, two bytes per
\* character of the default for VARCHAR) is not processed as an option
\* whose variable exists with the right size is: the walker stops at it or
\* gives it no varstore and no question.
StaleSizeSurfaced ==
  \A i \in 1..Len(wlog) :
    (/\ wlog[i].ev = "option"
     /\ (IsNumericTag(wlog[i].tag) \/ wlog[i].tag = CB_TAG_CFR_OPTION_VARCHAR)
     /\ ~wlog[i].rejected
     /\ VariableName(wlog[i].name) \in DOMAIN store
     /\ store[VariableName(wlog[i].name)].size # SizeExpected(wlog[i])) =>
      wlog[i].halted \/ wlog[i].emitted = 0

(***************************************************************************)
(* The attributes of the variables the walker creates.                     *)
(***************************************************************************)
\* C25: a step of the walker that creates a variable gives it boot-service
\* access, and non-volatile exactly when the VOLATILE bit of the flags of
\* the record at the cursor is clear; the READONLY, GRAYOUT, SUPPRESS and
\* RUNTIME bits change nothing, and no variable gets runtime access.
AttributesFollowVolatile ==
  [][\A n \in DOMAIN store' \ DOMAIN store :
       /\ wpc = "loop"
       /\ store'[n].attr
            = IF HasFlag(Word(CfrFormData, offsetof_flags), CFR_OPTFLAG_VOLATILE)
                THEN {"EFI_VARIABLE_BOOTSERVICE_ACCESS"}
                ELSE {"EFI_VARIABLE_BOOTSERVICE_ACCESS", "EFI_VARIABLE_NON_VOLATILE"}
    ]_vars

\* The walk has created the variables of a READONLY number, of a VOLATILE
\* and GRAYOUT checkbox, of a READONLY, VOLATILE and SUPPRESS string and of
\* a SUPPRESS, GRAYOUT and RUNTIME enum
VariablesOfEveryFlag ==
  /\ Scenarios[scn] = TreesFlagKinds
  /\ wpc = "done"
  /\ pass = 1
  /\ DOMAIN store = {VariableName(S_Foo), VariableName(S_Bar), VariableName(S_Baz),
                     VariableName(S_Sub)}
  /\ store[VariableName(S_Foo)].attr
       = {"EFI_VARIABLE_BOOTSERVICE_ACCESS", "EFI_VARIABLE_NON_VOLATILE"}
  /\ store[VariableName(S_Foo)].data = 7
  /\ store[VariableName(S_Bar)].attr = {"EFI_VARIABLE_BOOTSERVICE_ACCESS"}
  /\ store[VariableName(S_Baz)].attr = {"EFI_VARIABLE_BOOTSERVICE_ACCESS"}
  /\ store[VariableName(S_Sub)].attr
       = {"EFI_VARIABLE_BOOTSERVICE_ACCESS", "EFI_VARIABLE_NON_VOLATILE"}

(***************************************************************************)
(* The default of a read-only option and its lock.                         *)
(***************************************************************************)
\* The default the record at the walker's cursor declares: the 32-bit
\* default of a numeric option, the string after the header of a VARCHAR
DeclaredDefault ==
  IF Word(CfrFormData, 0) = CB_TAG_CFR_OPTION_VARCHAR
    THEN VariableName(CStr(CfrFormData, sizeof_CFR_OPTION_VARCHAR + sizeof_CFR_VARBINARY,
                           [w |-> 0, s |-> << >>]))
    ELSE Word(CfrFormData, offsetof_default_value)

\* C26: a step of the walker that locks a variable is a step on a READONLY
\* option made with the policy service present; the variable exists when
\* the step ends, and when it did not exist before the step it holds the
\* default the option declares: the write of the default is not refused by
\* the lock the same step requests.  In a second or later pass no READONLY
\* option has its default written, and none stops the walk.
DefaultWrittenBeforeLock ==
  [][/\ \A n \in locked' \ locked :
          /\ wpc = "loop"
          /\ mVariablePolicy
          /\ HasFlag(Word(CfrFormData, offsetof_flags), CFR_OPTFLAG_READONLY)
          /\ n \in DOMAIN store'
          /\ n \notin DOMAIN store => store'[n].data = DeclaredDefault
          /\ wpc' # "halt"
     /\ pass >= 2 =>
          \A i \in 1..Len(wlog') :
            (wlog'[i].ev = "option" /\ HasFlag(FlagsAt(wlog'[i]), CFR_OPTFLAG_READONLY)) =>
              ~wlog'[i].wrote /\ ~wlog'[i].halted
    ]_vars

\* A second walk has ended; the first wrote the defaults of the READONLY
\* options "Foo" and "Baz" and locked them
LockedWithDefaults ==
  /\ Scenarios[scn] = TreesFlagKinds
  /\ pass = 2
  /\ wpc = "done"
  /\ locked = {VariableName(S_Foo), VariableName(S_Baz)}
  /\ store[VariableName(S_Foo)].data = 7
  /\ store[VariableName(S_Baz)].data = VariableName(S_On)
  /\ \E i \in 1..Len(wlog) : wlog[i].name = S_Foo /\ wlog[i].lockreq /\ ~wlog[i].wrote

(***************************************************************************)
(* Conditional scopes.                                                     *)
(***************************************************************************)
\* The kinds of the opcodes of a record with these flags: the varstore of
\* an option that has one, suppress-if and its condition, gray-out-if and
\* its condition, the element, an End per scope
OpsExpected(e) ==
  LET flags == FlagsAt(e)
      tag == IF e.ev = "form" THEN CB_TAG_CFR_OPTION_FORM ELSE e.tag
      sup == HasFlag(flags, CFR_OPTFLAG_SUPPRESS)
      gray == HasFlag(flags, CFR_OPTFLAG_GRAYOUT)
  IN (IF IsNumericTag(tag) \/ tag = CB_TAG_CFR_OPTION_VARCHAR
        THEN << "EFI_IFR_VARSTORE_OP" >> ELSE << >>)
       \o (IF sup THEN << "EFI_IFR_SUPPRESS_IF_OP", "EFI_IFR_TRUE_OP" >> ELSE << >>)
       \o (IF gray THEN << "EFI_IFR_GRAY_OUT_IF_OP", "EFI_IFR_TRUE_OP" >> ELSE << >>)
       \o << CASE tag = CB_TAG_CFR_OPTION_FORM -> "EFI_IFR_SUBTITLE_OP"
               [] tag = CB_TAG_CFR_OPTION_ENUM -> "EFI_IFR_ONE_OF_OP"
               [] tag = CB_TAG_CFR_OPTION_NUMBER -> "EFI_IFR_NUMERIC_OP"
               [] tag = CB_TAG_CFR_OPTION_BOOL -> "EFI_IFR_CHECKBOX_OP"
               [] tag = CB_TAG_CFR_OPTION_VARCHAR -> "EFI_IFR_STRING_OP"
               [] OTHER -> "EFI_IFR_TEXT_OP" >>
       \o (IF gray THEN << "EFI_IFR_END_OP" >> ELSE << >>)
       \o (IF sup THEN << "EFI_IFR_END_OP" >> ELSE << >>)

ScopesOpened(opcodes) ==
  Cardinality({k \in 1..Len(opcodes) :
                 opcodes[k].op \in {"EFI_IFR_SUPPRESS_IF_OP", "EFI_IFR_GRAY_OUT_IF_OP"}})

ScopesClosed(opcodes) ==
  Cardinality({k \in 1..Len(opcodes) : opcodes[k].op = "EFI_IFR_END_OP"})

\* C27: the opcodes of every form and option the walker has emitted are,
\* in this order, the varstore (of an option that has one), a suppress-if
\* with its condition iff SUPPRESS is set, a gray-out-if with its condition
\* iff GRAYOUT is set, the element, and one End per scope opened; only the
\* two ifs open a scope; and after every record, and in the submitted
\* form, as many scopes are opened as End opcodes are emitted.
ScopesBalanced ==
  /\ \A i \in 1..Len(wlog) :
       (/\ wlog[i].ev \in {"form", "option"}
        /\ ~wlog[i].halted
        /\ wlog[i].ev = "option" => ~wlog[i].rejected) =>
         /\ [k \in 1..wlog[i].emitted |-> ops[wlog[i].start + k - 1].op] = OpsExpected(wlog[i])
         /\ \A k \in 1..wlog[i].emitted :
              LET o == ops[wlog[i].start + k - 1]
              IN "scope" \in DOMAIN o =>
                   (o.scope = 1 <=>
                      o.op \in {"EFI_IFR_SUPPRESS_IF_OP", "EFI_IFR_GRAY_OUT_IF_OP"})
  /\ wpc \in {"hob", "loop", "submit", "done"} => ScopesOpened(ops) = ScopesClosed(ops)
  /\ ScopesOpened(form) = ScopesClosed(form)

\* The walk has ended with the scopes of the root form, of the checkbox, of
\* the string and of the enum opened and closed
ScopesOfEveryFlag ==
  /\ Scenarios[scn] = TreesFlagKinds
  /\ wpc = "done"
  /\ ScopesOpened(form) = 5
  /\ ScopesClosed(form) = 5
  /\ Len(wlog) = 7
  /\ \A i \in 1..6 : ~wlog[i].halted

(***************************************************************************)
(* The default of a numeric option, as the resolver and the walker see it. *)
(***************************************************************************)
\* The records of every tree, with the buffer each is in
RecordsOfTrees == UNION {{[hob |-> h, rec |-> r] : r \in RecordsOf(h)} : h \in 1..Len(hobs)}

\* The ENUM, NUMBER and BOOL options whose internal name no other record of
\* any tree carries, as internal name or as form name
UniqueNumerics ==
  {x \in RecordsOfTrees :
     /\ x.rec.item.k = "num"
     /\ \A y \in RecordsOfTrees :
          (y # x /\ y.rec.item.k # "other") =>
            /\ FieldStr(y.rec.item.fields, CB_TAG_CFR_VARCHAR_OPT_NAME)
                 # FieldStr(x.rec.item.fields, CB_TAG_CFR_VARCHAR_OPT_NAME)
            /\ y.rec.item.k = "form" =>
                 FieldStr(y.rec.item.fields, CB_TAG_CFR_VARCHAR_UI_NAME)
                   # FieldStr(x.rec.item.fields, CB_TAG_CFR_VARCHAR_OPT_NAME)}

NameOf(x) == FieldStr(x.rec.item.fields, CB_TAG_CFR_VARCHAR_OPT_NAME)

\* C28: once the first walk over well-formed trees has ended, every ENUM,
\* NUMBER and BOOL option whose name is unique has been given a variable
\* that holds its declared default and a question whose standard default is
\* that value; and a lookup of that name that has ended returned
\* EFI_SUCCESS, a length of 4 and the location of that same value.
NumericDefaultAgrees ==
  (WellFormed /\ pass = 1) =>
    /\ wpc # "halt"
    /\ wpc = "done" =>
         \A x \in UniqueNumerics :
           /\ VariableName(NameOf(x)) \in DOMAIN store
           /\ store[VariableName(NameOf(x))].data = x.rec.item.def
           /\ \E i \in 1..Len(wlog) :
                /\ wlog[i].ev = "option" /\ wlog[i].hob = x.hob /\ wlog[i].off = x.rec.off
                /\ wlog[i].wrote /\ ~wlog[i].halted
                /\ QuestionOf(wlog[i], x.rec.item.flags).q.Default = x.rec.item.def
           /\ (/\ rpc \in {"done", "halt"}
               /\ rArgs.haveData
               /\ rArgs.OptionName = NameOf(x)
               /\ rArgs.FormName
                    \in {NullName, FieldStr(Scenarios[scn][x.hob].fields,
                                            CB_TAG_CFR_VARCHAR_UI_NAME)}) =>
                /\ rpc = "done"
                /\ rOut.status = "EFI_SUCCESS"
                /\ rOut.data = Ptr(x.hob, x.rec.off + offsetof_default_value)
                /\ Word(rOut.data, 0) = store[VariableName(NameOf(x))].data
                /\ rArgs.haveLength => rOut.length = 4

(***************************************************************************)
(* Forms and comments have no storage.                                     *)
(***************************************************************************)
\* The record at the walker's cursor, as the description of the trees has it
RecordAtCursor == CHOOSE r \in RecordsOf(wHob) : r.off = wLen

\* The option the step has just worked on: the numeric option in progress,
\* or the last entry of the log
OptionOfStep == IF wpc' = "numeric" THEN wOpt' ELSE wlog'[Len(wlog')]

\* C29: a step of the walker that creates a variable, changes the variable
\* store, locks a variable or emits a varstore opcode is the step of an
\* ENUM, NUMBER, BOOL or VARCHAR option whose default was not rejected, the
\* variable created is named by the internal name that step extracted, and
\* in a well-formed tree that is the internal name the record declares; the
\* step of a form or of a COMMENT does none of these.
StorageOnlyOfOptions ==
  [][LET varstores == {k \in (Len(ops) + 1)..Len(ops') : ops'[k].op = "EFI_IFR_VARSTORE_OP"}
     IN (store' # store \/ locked' # locked \/ (pass' = pass /\ varstores # {})) =>
          /\ wpc = "loop"
          /\ IsNumericTag(Word(CfrFormData, 0))
               \/ Word(CfrFormData, 0) = CB_TAG_CFR_OPTION_VARCHAR
          /\ Word(CfrFormData, 0) = CB_TAG_CFR_OPTION_VARCHAR => ~OptionOfStep.rejected
          /\ \A n \in DOMAIN store' \ DOMAIN store :
               /\ n = VariableName(OptionOfStep.name)
               /\ WellFormed =>
                    /\ \E r \in RecordsOf(wHob) : r.off = wLen
                    /\ RecordAtCursor.item.k \in {"num", "chr"}
                    /\ RecordAtCursor.item.tag # CB_TAG_CFR_OPTION_COMMENT
                    /\ n = VariableName(FieldStr(RecordAtCursor.item.fields,
                                                 CB_TAG_CFR_VARCHAR_OPT_NAME))
    ]_vars

\* The walk over the options of every kind has ended: the variables are
\* those of the checkbox, the enum and the string, the form and the comment
\* have their subtitle and their text, and there are three varstores
FormsAndCommentsWithoutStorage ==
  /\ Scenarios[scn] = TreesAllKinds
  /\ wpc = "done"
  /\ pass = 1
  /\ DOMAIN store = {VariableName(S_Foo), VariableName(S_Bar), VariableName(S_Baz)}
  /\ Len(wlog) = 6
  /\ wlog[1].ev = "form" /\ wlog[1].emitted = 1
  /\ form[1].op = "EFI_IFR_SUBTITLE_OP"
  /\ wlog[5].ev = "option" /\ wlog[5].tag = CB_TAG_CFR_OPTION_COMMENT
  /\ ~wlog[5].wrote /\ wlog[5].emitted = 1
  /\ form[wlog[5].start].op = "EFI_IFR_TEXT_OP"
  /\ Cardinality({k \in 1..Len(form) : form[k].op = "EFI_IFR_VARSTORE_OP"}) = 3

(***************************************************************************)
(* The form-name filter of the resolver.                                   *)
(***************************************************************************)
\* The UI name of the root form of buffer h
RootName(h) == FieldStr(Scenarios[scn][h].fields, CB_TAG_CFR_VARCHAR_UI_NAME)

RootNames == {RootName(h) : h \in 1..Len(Scenarios[scn])}

\* The forms that are not the root of their tree
NestedForms == {x \in RecordsOfTrees : x.rec.item.k = "form" /\ x.rec.off # 0}

\* The numeric options of unique name that are declared inside a nested form
NestedOptions ==
  {x \in UniqueNumerics :
     \A i \in 1..Len(Scenarios[scn][x.hob].children) :
       Scenarios[scn][x.hob].children[i] # x.rec.item}

\* C30: a lookup over well-formed trees that has ended has returned, and:
\* with FormName the UI name of the root of a tree and OptionName the name
\* of an option inside a nested form of that tree, it returned EFI_SUCCESS
\* and the location of that option's default; with a FormName that no root
\* carries, the name of a nested form included, it returned EFI_NOT_FOUND
\* at the end of the function after skipping every tree; it returned from
\* the form case only when a nested form carries OptionName; and with
\* OptionName carried by root forms only it returned EFI_NOT_FOUND at the
\* end of the function.
FormFilterOnRootsOnly ==
  (WellFormed /\ rpc \in {"done", "halt"} /\ rArgs.haveData /\ rArgs.OptionName # NullName) =>
    /\ rpc = "done"
    /\ \A x \in NestedOptions :
         (rArgs.OptionName = NameOf(x) /\ rArgs.FormName = RootName(x.hob)) =>
           /\ rOut.status = "EFI_SUCCESS"
           /\ rOut.site = 130
           /\ rOut.data = Ptr(x.hob, x.rec.off + offsetof_default_value)
    /\ (rArgs.FormName # NullName /\ rArgs.FormName \notin RootNames) =>
         /\ rOut.status = "EFI_NOT_FOUND"
         /\ rOut.site = 169
         /\ Len(rlog) = Len(hobs)
         /\ \A i \in 1..Len(rlog) :
              rlog[i].ev = "form" /\ rlog[i].root /\ rlog[i].skipped
    /\ rOut.site = 115 =>
         \E y \in NestedForms :
           /\ FieldStr(y.rec.item.fields, CB_TAG_CFR_VARCHAR_UI_NAME) = rArgs.OptionName
           /\ rlog[Len(rlog)].hob = y.hob /\ rlog[Len(rlog)].off = y.rec.off
    /\ (/\ rArgs.OptionName \in RootNames
        /\ \A y \in RecordsOfTrees :
             y.rec.off # 0 =>
               /\ FieldStr(y.rec.item.fields, CB_TAG_CFR_VARCHAR_UI_NAME) # rArgs.OptionName
                    \/ y.rec.item.k # "form"
               /\ FieldStr(y.rec.item.fields, CB_TAG_CFR_VARCHAR_OPT_NAME)
                    # rArgs.OptionName) =>
         /\ rOut.status = "EFI_NOT_FOUND"
         /\ rOut.site = 169

\* The lookup of "Bar", an option of the nested form "Sub" of the tree
\* "Main", with FormName "Sub" has returned EFI_NOT_FOUND
NestedNameFiltersAll ==
  /\ Scenarios[scn] = TreesNested
  /\ rpc = "done"
  /\ rArgs.haveData
  /\ rArgs.FormName = S_Sub
  /\ rArgs.OptionName = S_Bar
  /\ \E x \in NestedOptions : NameOf(x) = S_Bar
  /\ rOut.status = "EFI_NOT_FOUND"
  /\ rlog[1].skipped

=============================================================================
